---- MODULE Spec2Model ----
(***************************************************************************)
(* Model of the orchestrator core: the pattern store (LearningStore in     *)
(* learning_store.py) and the retry coordinator (call_agent_with_retry in  *)
(* utils.py).                                                              *)
(*                                                                         *)
(* Texts are sequences of one-character strings.  A confidence is a        *)
(* Python float that is always either a literal (1.0, 0.5, 0.7 ...) or the *)
(* quotient of two small integers; it is modelled as the fraction in       *)
(* lowest terms <<numerator, denominator>>, so two floats are equal iff    *)
(* their models are equal.                                                 *)
(***************************************************************************)
EXTENDS Integers, Sequences, FiniteSets, TLC

(***************************************************************************)
(* Bounds of the model.                                                    *)
(***************************************************************************)
\* largest number of records in the log
MaxLog == 2
\* largest clock reading
MaxClock == 1
\* update_outcome calls that find their pattern, per session
MaxUpdates == 3
\* largest max_retries argument tried
MaxRetries == 3

VARIABLES
    fileExists,   \* LearningStore.patterns_file exists on disk
    log,          \* the records of the JSONL file, in file order
    now,          \* the latest reading of datetime.utcnow()
    updates,      \* update_outcome calls of this session that rewrote the file
    last,         \* the latest store call: its arguments and what it returned
    applied,      \* per record of the single-writer store: the successes it was
                  \* recorded with (1 or 0) and the updates applied to it since
    tally,        \* per pattern id: the update_outcome calls that returned True
    pc,           \* where call_agent_with_retry is: idle, loop, returned, raised
    max_retries,  \* its argument
    attempt,      \* its loop variable
    last_error,   \* its local last_error
    prompts,      \* the prompts passed to run_agent so far, in order
    responses,    \* what each of these invocations led to: "ok" or the exception
    result,       \* the value it returned
    raised,       \* the exception it raised
    raw_response, \* the text passed to parse_llm_json
    parsed,       \* what parse_llm_json returned or raised for it
    workflow,     \* the entry point that is running
    wpc,          \* where it stands
    env_writes,   \* the environment variable LINEAR_ENABLE_WRITES
    api_key,      \* whether LINEAR_API_KEY is set
    writes_enabled, \* execute_triage's local of that name
    requests,     \* the requests sent to the Linear API, in order
    replies,      \* what each of them led to
    update_from,  \* how many had been sent when update_issue was entered
    calls,        \* the calls of call_agent_with_retry: agent and invocations before
    validity,     \* execute_triage's local: the validated ValidityAnalysis
    severity,     \* execute_triage's local: the validated SeverityAnalysis
    saved,        \* the files save_analysis wrote
    finished,     \* what the entry point returned or raised
    thrown,       \* the exception that ended it, if one did
    issue,        \* execute_investigation's local issue_data
    similar_issues, \* and its other locals
    pattern_matches,
    findings,
    recommendations,
    writers,      \* how many processes write to the store
    wstate,       \* where each stands in update_outcome, and what it read
    version,      \* how many times the patterns file has been written
    ledger        \* the patterns recorded and the updates that returned True

storeVars == <<fileExists, log, now, updates, last, applied, tally>>

retryVars == <<pc, max_retries, attempt, last_error, prompts, responses, result, raised>>

parseVars == <<raw_response, parsed>>

workflowVars == <<workflow, wpc, env_writes, api_key, writes_enabled, requests, replies,
                  update_from, calls, validity, severity, saved, finished, thrown,
                  issue, similar_issues, pattern_matches, findings, recommendations>>

writerVars == <<writers, wstate, version, ledger>>

vars == <<storeVars, retryVars, parseVars, workflowVars, writerVars>>

\* the variables that the store, the retry coordinator and the extractor
\* each leave alone
outsideStore == <<retryVars, parseVars, workflowVars, writerVars>>
outsideRetry == <<storeVars, parseVars, workflowVars, writerVars>>
outsideParse == <<storeVars, retryVars, workflowVars, writerVars>>

(***************************************************************************)
(* Floats as fractions in lowest terms.                                    *)
(***************************************************************************)
RECURSIVE Gcd(_, _)
Gcd(a, b) == IF b = 0 THEN a ELSE Gcd(b, a % b)

\* Python's true division s / t of two ints, t > 0
TrueDiv(s, t) == <<s \div Gcd(s, t), t \div Gcd(s, t)>>

\* a >= b on floats
FloatGeq(a, b) == a[1] * b[2] >= b[1] * a[2]

One == <<1, 1>>
Half == <<1, 2>>

(***************************************************************************)
(* Strings.                                                                *)
(***************************************************************************)
\* str.lower() on one character of the model's alphabet
LowerChar(c) ==
    CASE c = "A" -> "a" [] c = "B" -> "b" [] c = "E" -> "e" [] c = "R" -> "r"
      [] c = "S" -> "s" [] c = "T" -> "t" [] c = "U" -> "u" [] c = "Y" -> "y"
      [] OTHER -> c

\* str.lower()
Lower(s) == [i \in 1..Len(s) |-> LowerChar(s[i])]

\* variant: the empty string is contained in no string
In_NonEmpty(a, b) ==
    a # <<>> /\ \E i \in 0..(Len(b) - Len(a)) : SubSeq(b, i + 1, i + Len(a)) = a

\* Python's  a in b  on strings
In(a, b) == \E i \in 0..(Len(b) - Len(a)) : SubSeq(b, i + 1, i + Len(a)) = a

\* datetime.isoformat(): a fixed-width rendering, one symbol per reading
IsoFormat(t) == <<ToString(t)>>

\* hashlib.md5(x.encode()).hexdigest()[:8]: a function of its input alone;
\* taken to be injective on the inputs of the model
Md5Hex8(x) == x

\* learning_store.py:48
PatternId(timestamp, issue_pattern) == <<"P-">> \o Md5Hex8(IsoFormat(timestamp) \o issue_pattern)

(***************************************************************************)
(* record_pattern                                                          *)
(***************************************************************************)
\* variant: an unresolved pattern starts at 0 successes / 1 use = 0.0
NewPattern_ZeroConfidence(t, issue_pattern, recommendation, citations, outcome) ==
    [ pattern_id |-> PatternId(t, issue_pattern),
      issue_pattern |-> issue_pattern,
      recommendation |-> recommendation,
      citations |-> citations,
      outcome |-> outcome,
      successful_resolutions |-> IF outcome = "resolved" THEN 1 ELSE 0,
      total_uses |-> 1,
      confidence |-> IF outcome = "resolved" THEN One ELSE <<0, 1>>,
      created_at |-> t,
      updated_at |-> t ]

\* the dict built by record_pattern
NewPattern(t, issue_pattern, recommendation, citations, outcome) ==
    [ pattern_id |-> PatternId(t, issue_pattern),
      issue_pattern |-> issue_pattern,
      recommendation |-> recommendation,
      citations |-> citations,
      outcome |-> outcome,
      successful_resolutions |-> IF outcome = "resolved" THEN 1 ELSE 0,
      total_uses |-> 1,
      confidence |-> IF outcome = "resolved" THEN One ELSE Half,
      created_at |-> t,
      updated_at |-> t ]

\* variant: the file is opened with "w"
AppendLine_Truncate(lines, pattern) == <<pattern>>

\* open(patterns_file, "a") and write one line
AppendLine(lines, pattern) == Append(lines, pattern)

(***************************************************************************)
(* update_outcome                                                          *)
(***************************************************************************)
\* variant: the confidence is computed before total_uses is incremented
UpdatedPattern_StaleUses(p, outcome, t) ==
    LET succ == IF outcome = "resolved"
                THEN p.successful_resolutions + 1
                ELSE p.successful_resolutions
    IN  [p EXCEPT !.outcome = outcome,
                  !.total_uses = p.total_uses + 1,
                  !.successful_resolutions = succ,
                  !.confidence = TrueDiv(succ, p.total_uses),
                  !.updated_at = t]

\* variant: every update counts as a success
UpdatedPattern_AlwaysSucceeds(p, outcome, t) ==
    LET uses == p.total_uses + 1
        succ == p.successful_resolutions + 1
    IN  [p EXCEPT !.outcome = outcome,
                  !.total_uses = uses,
                  !.successful_resolutions = succ,
                  !.confidence = TrueDiv(succ, uses),
                  !.updated_at = t]

\* the body of  if pattern["pattern_id"] == pattern_id:
UpdatedPattern(p, outcome, t) ==
    LET uses == p.total_uses + 1
        succ == IF outcome = "resolved"
                THEN p.successful_resolutions + 1
                ELSE p.successful_resolutions
    IN  [p EXCEPT !.outcome = outcome,
                  !.total_uses = uses,
                  !.successful_resolutions = succ,
                  !.confidence = TrueDiv(succ, uses),
                  !.updated_at = t]

\* variant: the update is applied to every line read
ReadAndUpdate_All(lines, pattern_id, outcome, t) ==
    [i \in 1..Len(lines) |-> UpdatedPattern(lines[i], outcome, t)]

\* variant: patterns.append(pattern) stands inside the if statement
ReadAndUpdate_OnlyMatching(lines, pattern_id, outcome, t) ==
    LET matching == SelectSeq(lines, LAMBDA p : p.pattern_id = pattern_id)
    IN  [i \in 1..Len(matching) |-> UpdatedPattern(matching[i], outcome, t)]

\* the list  patterns  after the read loop
ReadAndUpdate(lines, pattern_id, outcome, t) ==
    [i \in 1..Len(lines) |->
        IF lines[i].pattern_id = pattern_id
        THEN UpdatedPattern(lines[i], outcome, t)
        ELSE lines[i]]

\* variant: updated = True is set for every line read
Updated_Always(lines, pattern_id) == lines # <<>>

\* the flag  updated  after the read loop
Updated(lines, pattern_id) == \E i \in 1..Len(lines) : lines[i].pattern_id = pattern_id

(***************************************************************************)
(* find_matching_patterns                                                  *)
(***************************************************************************)
\* variant: the confidence is not looked at
Matches_AnyConfidence(p, issue_description, min_confidence) ==
    \/ In(Lower(issue_description), Lower(p.issue_pattern))
    \/ In(Lower(p.issue_pattern), Lower(issue_description))

\* variant: the threshold is exclusive
Matches_Strict(p, issue_description, min_confidence) ==
    /\ \/ In(Lower(issue_description), Lower(p.issue_pattern))
       \/ In(Lower(p.issue_pattern), Lower(issue_description))
    /\ ~FloatGeq(min_confidence, p.confidence)

\* the condition of the if in the read loop
Matches(p, issue_description, min_confidence) ==
    /\ \/ In(Lower(issue_description), Lower(p.issue_pattern))
       \/ In(Lower(p.issue_pattern), Lower(issue_description))
    /\ FloatGeq(p.confidence, min_confidence)

\* PatternMatch(...) built from a stored pattern
ToPatternMatch(p) ==
    [ pattern_id |-> p.pattern_id,
      description |-> p.issue_pattern,
      confidence |-> p.confidence,
      successful_resolutions |-> p.successful_resolutions,
      citations |-> p.citations ]

\* the list  matches  after the read loop
RECURSIVE Collect(_, _, _)
Collect(lines, issue_description, min_confidence) ==
    IF lines = <<>> THEN <<>>
    ELSE LET rest == Collect(SubSeq(lines, 1, Len(lines) - 1), issue_description, min_confidence)
             p == lines[Len(lines)]
         IN  IF Matches(p, issue_description, min_confidence)
             THEN Append(rest, ToPatternMatch(p))
             ELSE rest

\* variant: an unstable sort, m goes before the elements with an equal key
RECURSIVE InsertDesc_Unstable(_, _)
InsertDesc_Unstable(sorted, m) ==
    IF sorted = <<>> THEN <<m>>
    ELSE LET tl == sorted[Len(sorted)]
         IN  IF ~FloatGeq(m.confidence, tl.confidence)
             THEN Append(sorted, m)
             ELSE Append(InsertDesc_Unstable(SubSeq(sorted, 1, Len(sorted) - 1), m), tl)

\* one insertion of a stable sort by confidence, largest first: m goes
\* behind every element whose key is not smaller
RECURSIVE InsertDesc(_, _)
InsertDesc(sorted, m) ==
    IF sorted = <<>> THEN <<m>>
    ELSE LET tl == sorted[Len(sorted)]
         IN  IF FloatGeq(tl.confidence, m.confidence)
             THEN Append(sorted, m)
             ELSE Append(InsertDesc(SubSeq(sorted, 1, Len(sorted) - 1), m), tl)

\* matches.sort(key=lambda m: m.confidence, reverse=True): list.sort is
\* stable, also with reverse=True
RECURSIVE SortByConfidenceDesc(_)
SortByConfidenceDesc(ms) ==
    IF ms = <<>> THEN <<>>
    ELSE InsertDesc(SortByConfidenceDesc(SubSeq(ms, 1, Len(ms) - 1)), ms[Len(ms)])

(***************************************************************************)
(* Inputs.                                                                 *)
(***************************************************************************)
Texts == { <<>>, <<"a">>, <<"b">>, <<"A", "b">> }
Recommendations == { <<"r">> }
CitationLists == { <<[source_type |-> "pattern", source_id |-> "P-1",
                     source_url |-> "u", excerpt |-> "e", retrieved_at |-> 0]>> }
RecordOutcomes == { "resolved", "not_resolved", "null" }
UpdateOutcomes == { "resolved", "not_resolved" }
MinConfidences == { <<3, 10>>, Half, <<7, 10>>, One }
\* a pattern id that record_pattern never produces
UnknownId == <<"P-", "nonexistent">>

Call(op) ==
    [ op |-> op, text |-> <<>>, id |-> <<>>, outcome |-> "null",
      min_confidence |-> <<0, 1>>, ok |-> FALSE, matches |-> <<>> ]

(***************************************************************************)
(* A log left on disk by earlier sessions: the constructor neither creates *)
(* nor truncates the file.  It is built with the operations themselves:    *)
(* one pattern recorded as resolved, then 5 resolved and 3 not_resolved    *)
(* updates, which leaves 6 successes in 9 uses.                            *)
(***************************************************************************)
RECURSIVE Replay(_, _, _)
Replay(lines, pattern_id, outcomes) ==
    IF outcomes = <<>> THEN lines
    ELSE Replay(ReadAndUpdate(lines, pattern_id, outcomes[1], 0), pattern_id, Tail(outcomes))

PriorOutcomes ==
    <<"resolved", "resolved", "resolved", "resolved", "resolved",
      "not_resolved", "not_resolved", "not_resolved">>

PriorLog ==
    LET p == NewPattern(0, <<"a">>, <<"r">>, <<>>, "resolved")
    IN  Replay(<<p>>, p.pattern_id, PriorOutcomes)

(***************************************************************************)
(* The account of the calls made: the successes each record started with,  *)
(* the update_outcome calls that returned True, per record and per id.      *)
(***************************************************************************)
NoUpdates == [updated |-> 0, resolved |-> 0]

\* one more update_outcome call that returned True
Bump(c, outcome) ==
    [c EXCEPT !.updated = @ + 1,
              !.resolved = IF outcome = "resolved" THEN @ + 1 ELSE @]

RECURSIVE BumpAll(_, _)
BumpAll(c, outcomes) ==
    IF outcomes = <<>> THEN c ELSE BumpAll(Bump(c, outcomes[1]), Tail(outcomes))

CountOf(t, pattern_id) == IF pattern_id \in DOMAIN t THEN t[pattern_id] ELSE NoUpdates

\* the account after record_pattern wrote one more line
Recorded(a, outcome) ==
    Append(a, [first |-> IF outcome = "resolved" THEN 1 ELSE 0,
               updated |-> 0, resolved |-> 0])

\* the accounts after update_outcome(pattern_id, outcome) returned True
AppliedTo(a, lines, pattern_id, outcome) ==
    [i \in 1..Len(a) |->
        IF i <= Len(lines) /\ lines[i].pattern_id = pattern_id
        THEN Bump(a[i], outcome) ELSE a[i]]

Tallied(t, pattern_id, outcome) ==
    (pattern_id :> Bump(CountOf(t, pattern_id), outcome)) @@ t

\* the account of a log that was not written in this session
NoAccount == applied = <<>> /\ tally = <<>>

(***************************************************************************)
(* The store.                                                              *)
(***************************************************************************)
StoreInit ==
    /\ \/ fileExists = FALSE /\ log = <<>> /\ NoAccount
       \/ /\ fileExists = TRUE /\ log = PriorLog
          /\ applied = <<[first |-> 1] @@ BumpAll(NoUpdates, PriorOutcomes)>>
          /\ tally = (PriorLog[1].pattern_id :> BumpAll(NoUpdates, PriorOutcomes))
    /\ now = 0
    /\ updates = 0
    /\ last = Call("init")

record_pattern(issue_pattern, recommendation, citations, outcome, t) ==
    /\ Len(log) < MaxLog
    /\ now' = t
    /\ LET pattern == NewPattern(t, issue_pattern, recommendation, citations, outcome)
       IN  /\ log' = AppendLine(log, pattern)
           /\ fileExists' = TRUE
           /\ last' = [Call("record_pattern") EXCEPT
                          !.text = issue_pattern, !.outcome = outcome,
                          !.id = pattern.pattern_id]
    /\ applied' = Recorded(applied, outcome)
    /\ UNCHANGED <<updates, tally>>
    /\ UNCHANGED outsideStore

\* variant: the file is opened in a mode that creates it
find_matching_patterns_Creates(issue_description, min_confidence) ==
    /\ last' = [Call("find_matching_patterns") EXCEPT
                   !.text = issue_description, !.min_confidence = min_confidence,
                   !.matches = SortByConfidenceDesc(
                                  Collect(log, issue_description, min_confidence))]
    /\ fileExists' = TRUE
    /\ UNCHANGED <<log, now, updates, applied, tally>>
    /\ UNCHANGED outsideStore

find_matching_patterns(issue_description, min_confidence) ==
    /\ last' = [Call("find_matching_patterns") EXCEPT
                   !.text = issue_description, !.min_confidence = min_confidence,
                   !.matches = IF ~fileExists THEN <<>>
                               ELSE SortByConfidenceDesc(
                                       Collect(log, issue_description, min_confidence))]
    /\ UNCHANGED <<fileExists, log, now, updates, applied, tally>>
    /\ UNCHANGED outsideStore

update_outcome(pattern_id, outcome, t) ==
    /\ updates < MaxUpdates
    /\ IF ~fileExists
       THEN /\ last' = [Call("update_outcome") EXCEPT
                           !.id = pattern_id, !.outcome = outcome, !.ok = FALSE]
            /\ UNCHANGED <<fileExists, log, now, updates, applied, tally>>
       ELSE LET patterns == ReadAndUpdate(log, pattern_id, outcome, t)
                updated == Updated(log, pattern_id)
            IN  /\ log' = IF updated THEN patterns ELSE log
                /\ now' = IF updated THEN t ELSE now
                /\ updates' = IF updated THEN updates + 1 ELSE updates
                /\ last' = [Call("update_outcome") EXCEPT
                               !.id = pattern_id, !.outcome = outcome, !.ok = updated]
                /\ applied' = IF updated
                              THEN AppliedTo(applied, log, pattern_id, outcome)
                              ELSE applied
                /\ tally' = IF updated THEN Tallied(tally, pattern_id, outcome) ELSE tally
                /\ UNCHANGED fileExists
    /\ UNCHANGED outsideStore

RecordStep ==
    \E ip \in Texts, r \in Recommendations, c \in CitationLists,
       o \in RecordOutcomes, t \in now..MaxClock :
        record_pattern(ip, r, c, o, t)

FindStep ==
    \E d \in Texts, m \in MinConfidences : find_matching_patterns(d, m)

UpdateStep ==
    \E id \in {log[i].pattern_id : i \in 1..Len(log)} \cup {UnknownId},
       o \in UpdateOutcomes, t \in now..MaxClock :
        update_outcome(id, o, t)

(***************************************************************************)
(* The retry coordinator, call_agent_with_retry.                           *)
(***************************************************************************)
\* what one attempt can end in: run_agent raises, parse_llm_json raises
\* ValueError, schema(**json_data) raises ValidationError, or schema(**json_data)
\* raises another exception (json_data is a list, not a mapping)
InvokerErrors == { "TimeoutExpired", "CalledProcessError" }
ExtractionErrors == { "ValueError" }
ValidationErrors == { "ValidationError" }
OtherErrors == { "TypeError" }

NoError == [kind |-> "None", at |-> 0]

\* the exception raised in the n-th invocation's attempt
Error(kind, n) == [kind |-> kind, at |-> n]

\* str(e)
Str(e) == <<e.kind, ToString(e.at)>>

\* the initial value of last_error, None
None == <<"None">>

\* build_agent_prompt(agent_name, task, data, schema)
BasePrompt == <<"base">>

\* the prompt of the loop body, lines 279-287
Prompt(k, err) ==
    IF k = 0 THEN BasePrompt
    ELSE <<"Previous attempt failed with error: ">> \o err \o BasePrompt

\* variant: the test uses the 1-based attempt number of the log messages
Continues_OneBased(k, n) == k + 1 < n - 1

\* variant: the last attempt continues too, and the loop runs out
Continues_Always(k, n) == k < n

\* if attempt < max_retries - 1: continue
Continues(k, n) == k < n - 1

RetryIdle ==
    /\ pc = "idle"
    /\ max_retries = 0
    /\ attempt = 0
    /\ last_error = None
    /\ prompts = <<>>
    /\ responses = <<>>
    /\ result = 0
    /\ raised = NoError

\* entry: last_error = None, then the for statement
Enter(n) ==
    /\ pc' = "loop"
    /\ max_retries' = n
    /\ attempt' = 0
    /\ last_error' = None
    /\ UNCHANGED <<prompts, responses, result, raised>>

call_agent_with_retry(n) ==
    /\ pc = "idle"
    /\ Enter(n)
    /\ UNCHANGED outsideRetry

\* variant: last_error is set by the first failure only
Handler_KeepsFirstError(e) ==
    /\ last_error' = IF last_error = None THEN Str(e) ELSE last_error
    /\ IF Continues(attempt, max_retries)
       THEN /\ attempt' = attempt + 1
            /\ UNCHANGED <<pc, raised>>
       ELSE /\ pc' = "raised"
            /\ raised' = e
            /\ UNCHANGED attempt

\* one iteration in which an exception e reaches the handler
\*   except Exception as e
\* with last_error already set to err by an inner handler, or not (err = last_error)
Handler(e) ==
    /\ last_error' = Str(e)
    /\ IF Continues(attempt, max_retries)
       THEN /\ attempt' = attempt + 1
            /\ UNCHANGED <<pc, raised>>
       ELSE /\ pc' = "raised"
            /\ raised' = e
            /\ UNCHANGED attempt

\* one iteration in which an inner handler (lines 297-302 or 307-312) catches
\* e, sets last_error to text and either continues or re-raises to Handler
InnerHandler(e, text) ==
    IF Continues(attempt, max_retries)
    THEN /\ last_error' = text
         /\ attempt' = attempt + 1
         /\ UNCHANGED <<pc, raised>>
    ELSE Handler(e)

\* variant: the validated value is kept but the loop is not left
Invoke_NoReturn(response) ==
    /\ pc \in {"loop", "returned"}
    /\ attempt < max_retries
    /\ prompts' = Append(prompts, Prompt(attempt, last_error))
    /\ responses' = Append(responses, response)

\* the head of every iteration: build the prompt and call run_agent, which
\* leads to response
Invoke(response) ==
    /\ pc = "loop"
    /\ attempt < max_retries
    /\ prompts' = Append(prompts, Prompt(attempt, last_error))
    /\ responses' = Append(responses, response)

\* variant: run_agent is called outside the try statement
AttemptInvokerFails_Propagates ==
    /\ \E kind \in InvokerErrors :
          /\ Invoke(kind)
          /\ pc' = "raised"
          /\ raised' = Error(kind, Len(prompts) + 1)
    /\ UNCHANGED <<max_retries, attempt, last_error, result>>
    /\ UNCHANGED outsideRetry

AttemptInvokerFails ==
    /\ \E kind \in InvokerErrors :
          Invoke(kind) /\ Handler(Error(kind, Len(prompts) + 1))
    /\ UNCHANGED <<max_retries, result>>
    /\ UNCHANGED outsideRetry

AttemptExtractionFails ==
    /\ \E kind \in ExtractionErrors :
          LET e == Error(kind, Len(prompts) + 1)
          IN  Invoke(kind) /\ InnerHandler(e, Str(e))
    /\ UNCHANGED <<max_retries, result>>
    /\ UNCHANGED outsideRetry

AttemptValidationFails ==
    /\ \E kind \in ValidationErrors :
          LET e == Error(kind, Len(prompts) + 1)
          IN  Invoke(kind) /\ InnerHandler(e, <<"Schema validation failed: ">> \o Str(e))
    /\ UNCHANGED <<max_retries, result>>
    /\ UNCHANGED outsideRetry

AttemptSchemaCallFails ==
    /\ \E kind \in OtherErrors :
          Invoke(kind) /\ Handler(Error(kind, Len(prompts) + 1))
    /\ UNCHANGED <<max_retries, result>>
    /\ UNCHANGED outsideRetry

\* return schema(**json_data): the value validated in this attempt
AttemptSucceeds ==
    /\ Invoke("ok")
    /\ pc' = "returned"
    /\ result' = Len(prompts) + 1
    /\ UNCHANGED <<max_retries, attempt, last_error, raised>>
    /\ UNCHANGED outsideRetry

\* variant: behind the loop the function ends and returns None
Exhausted_ReturnsNone ==
    /\ pc = "loop"
    /\ ~(attempt < max_retries)
    /\ pc' = "returned"
    /\ UNCHANGED <<max_retries, attempt, last_error, prompts, responses, result, raised>>
    /\ UNCHANGED outsideRetry

\* line 322, behind the loop
Exhausted ==
    /\ pc = "loop"
    /\ ~(attempt < max_retries)
    /\ pc' = "raised"
    /\ raised' = [kind |-> "ValueError", at |-> 0]
    /\ UNCHANGED <<max_retries, attempt, last_error, prompts, responses, result>>
    /\ UNCHANGED outsideRetry

(***************************************************************************)
(* The extractor, parse_llm_json.  A text is a sequence of characters:     *)
(* the letters "p", "j", "s", "o", "n", the blank " ", the digits "1" and  *)
(* "2", the JSON delimiters "{" "}" "[" "]" "," ":", and "q" for the       *)
(* double quote, "b" for the backtick, "." for the full stop.              *)
(***************************************************************************)
\* the least index >= pos of s whose character is one of chars, or Len(s) + 1
FirstIndex(s, pos, chars) ==
    IF \E i \in pos..Len(s) : s[i] \in chars
    THEN CHOOSE i \in pos..Len(s) :
            s[i] \in chars /\ \A j \in pos..(i - 1) : s[j] \notin chars
    ELSE Len(s) + 1

\* the least index >= pos of s whose character is none of chars, or Len(s) + 1
FirstOutside(s, pos, chars) ==
    IF \E i \in pos..Len(s) : s[i] \notin chars
    THEN CHOOSE i \in pos..Len(s) :
            s[i] \notin chars /\ \A j \in pos..(i - 1) : s[j] \in chars
    ELSE Len(s) + 1

\* the characters json, str.strip and \s skip, and the digits
Space == {" "}
Digit == {"1", "2"}

\* whether the characters of word stand in s from position i on
StartsAt(s, i, word) ==
    /\ i + Len(word) - 1 <= Len(s)
    /\ \A x \in 1..Len(word) : s[i + x - 1] = word[x]

\* the least index >= pos where word stands in s, or Len(s) + 1
FirstOccurrence(s, pos, word) ==
    IF \E i \in pos..Len(s) : StartsAt(s, i, word)
    THEN CHOOSE i \in pos..Len(s) :
            StartsAt(s, i, word) /\ \A j \in pos..(i - 1) : ~StartsAt(s, j, word)
    ELSE Len(s) + 1

\* str.strip()
Strip(s) ==
    LET a == FirstOutside(s, 1, Space)
        b == IF a > Len(s) THEN 0
             ELSE CHOOSE i \in a..Len(s) : s[i] # " " /\ \A j \in (i + 1)..Len(s) : s[j] = " "
    IN  SubSeq(s, a, b)

(* The values json.loads returns.  Two of them are equal exactly when the  *)
(* Python values are: an object is the function from its keys to their     *)
(* values, so neither the order of the members nor a repeated key counts.  *)
JsonValue(type, text, items, members) ==
    [type |-> type, text |-> text, items |-> items, members |-> members]

JsonNumber(digits) == JsonValue("int", digits, <<>>, <<>>)
JsonString(chars) == JsonValue("str", chars, <<>>, <<>>)
JsonList(items) == JsonValue("list", <<>>, items, <<>>)
JsonObject(members) == JsonValue("dict", <<>>, <<>>, members)
NoValue == JsonValue("none", <<>>, <<>>, <<>>)

JFail == [ok |-> FALSE, next |-> 0, val |-> NoValue]

RECURSIVE JValue(_, _)
RECURSIVE JMembers(_, _, _)
RECURSIVE JElements(_, _, _)

\* the JSON value that starts at or behind position i0 of s, and the
\* position behind it
JValue(s, i0) ==
    LET i == FirstOutside(s, i0, Space)
    IN  IF i > Len(s) THEN JFail
        ELSE IF s[i] \in {"1", "2"} THEN
            LET e == FirstOutside(s, i, Digit)
            IN  [ok |-> TRUE, next |-> e, val |-> JsonNumber(SubSeq(s, i, e - 1))]
        ELSE IF s[i] = "q" THEN
            LET e == FirstIndex(s, i + 1, {"q"})
            IN  IF e > Len(s) THEN JFail
                ELSE [ok |-> TRUE, next |-> e + 1, val |-> JsonString(SubSeq(s, i + 1, e - 1))]
        ELSE IF s[i] = "{" THEN
            LET j == FirstOutside(s, i + 1, Space)
            IN  IF j <= Len(s) /\ s[j] = "}"
                THEN [ok |-> TRUE, next |-> j + 1, val |-> JsonObject(<<>>)]
                ELSE JMembers(s, j, <<>>)
        ELSE IF s[i] = "[" THEN
            LET j == FirstOutside(s, i + 1, Space)
            IN  IF j <= Len(s) /\ s[j] = "]"
                THEN [ok |-> TRUE, next |-> j + 1, val |-> JsonList(<<>>)]
                ELSE JElements(s, j, <<>>)
        ELSE JFail

\* the members of an object from position j on, up to its closing brace;
\* acc holds the members before them, and a later member replaces an
\* earlier one of the same key
JMembers(s, j, acc) ==
    IF j > Len(s) \/ s[j] # "q" THEN JFail
    ELSE LET e == FirstIndex(s, j + 1, {"q"})
             c == FirstOutside(s, e + 1, Space)
         IN  IF c > Len(s) \/ s[c] # ":" THEN JFail
             ELSE LET v == JValue(s, c + 1)
                      n == FirstOutside(s, v.next, Space)
                      members == (SubSeq(s, j + 1, e - 1) :> v.val) @@ acc
                  IN  IF ~v.ok \/ n > Len(s) THEN JFail
                      ELSE IF s[n] = "}"
                           THEN [ok |-> TRUE, next |-> n + 1, val |-> JsonObject(members)]
                      ELSE IF s[n] = ","
                           THEN JMembers(s, FirstOutside(s, n + 1, Space), members)
                      ELSE JFail

\* the elements of a list from position j on, up to its closing bracket
JElements(s, j, acc) ==
    LET v == JValue(s, j)
        n == FirstOutside(s, v.next, Space)
    IN  IF ~v.ok \/ n > Len(s) THEN JFail
        ELSE IF s[n] = "]"
             THEN [ok |-> TRUE, next |-> n + 1, val |-> JsonList(Append(acc, v.val))]
        ELSE IF s[n] = ","
             THEN JElements(s, n + 1, Append(acc, v.val))
        ELSE JFail

\* json.loads(s): ok is FALSE for JSONDecodeError
JsonLoads(s) ==
    LET v == JValue(s, 1)
    IN  IF v.ok /\ FirstOutside(s, v.next, Space) > Len(s)
        THEN [ok |-> TRUE, val |-> v.val]
        ELSE [ok |-> FALSE, val |-> NoValue]

(* The patterns  \{(?:[^{}]|(?:\{[^{}]*\}))*\}  and the same with brackets. *)
(* Every step of a match is forced by the next delimiter, so a match that   *)
(* starts at i has one possible end.                                        *)
\* the index where the match ends when position j is reached inside the
\* outer pair (depth 0) or inside a nested pair (depth 1); 0 for no match
\* variant: the pattern  \{.*\}  , which runs to the last closing delimiter
MatchEnd_Greedy(s, j, open, close, depth) ==
    IF \E d \in j..Len(s) : s[d] = close
    THEN CHOOSE d \in j..Len(s) : s[d] = close /\ \A x \in (d + 1)..Len(s) : s[x] # close
    ELSE 0

RECURSIVE MatchEnd(_, _, _, _, _)
MatchEnd(s, j, open, close, depth) ==
    LET d == FirstIndex(s, j, {open, close})
    IN  IF d > Len(s) THEN 0
        ELSE IF s[d] = close
             THEN IF depth = 0 THEN d ELSE MatchEnd(s, d + 1, open, close, 0)
        ELSE IF depth = 0 THEN MatchEnd(s, d + 1, open, close, 1)
        ELSE 0

\* re.findall(pattern, s): the matches from left to right, each search
\* starting behind the previous match
RECURSIVE FindAllBalanced(_, _, _, _)
FindAllBalanced(s, pos, open, close) ==
    LET i == FirstIndex(s, pos, {open})
    IN  IF i > Len(s) THEN <<>>
        ELSE LET e == MatchEnd(s, i + 1, open, close, 0)
             IN  IF e = 0
                 THEN FindAllBalanced(s, i + 1, open, close)
                 ELSE <<SubSeq(s, i, e)>> \o FindAllBalanced(s, e + 1, open, close)

\* one insertion of a stable sort by length, longest first
RECURSIVE InsertByLenDesc(_, _)
InsertByLenDesc(sorted, m) ==
    IF sorted = <<>> THEN <<m>>
    ELSE LET tl == sorted[Len(sorted)]
         IN  IF Len(tl) >= Len(m)
             THEN Append(sorted, m)
             ELSE Append(InsertByLenDesc(SubSeq(sorted, 1, Len(sorted) - 1), m), tl)

SortedByLenDesc_Unsorted(ms) == ms

\* sorted(matches, key=len, reverse=True)
RECURSIVE SortedByLenDesc(_)
SortedByLenDesc(ms) ==
    IF ms = <<>> THEN <<>>
    ELSE InsertByLenDesc(SortedByLenDesc(SubSeq(ms, 1, Len(ms) - 1)), ms[Len(ms)])

Fence == <<"b", "b", "b">>
TaggedFence == <<"b", "b", "b", "j", "s", "o", "n">>

(* re.findall of a markdown pattern, opening \s*(.*?)\s* fence: the groups. *)
(* A group starts behind the blanks that follow the opening and ends before *)
(* the blanks in front of the next fence; the next search starts behind     *)
(* that fence.                                                              *)
RECURSIVE FindAllFenced(_, _, _)
FindAllFenced(s, pos, opening) ==
    LET i == FirstOccurrence(s, pos, opening)
        a == FirstOutside(s, i + Len(opening), Space)
        f == FirstOccurrence(s, a, Fence)
        e == CHOOSE x \in a..f :
                /\ \A y \in x..(f - 1) : s[y] = " "
                /\ \A z \in a..(x - 1) : \E y \in z..(f - 1) : s[y] # " "
    IN  IF i > Len(s) \/ f > Len(s) THEN <<>>
        ELSE <<SubSeq(s, a, e - 1)>> \o FindAllFenced(s, f + Len(Fence), opening)

\* the groups of a markdown pattern, each stripped
Stripped(groups) == [i \in 1..Len(groups) |-> Strip(groups[i])]

\* the loop  for match in ...: try: return json.loads(...)  over the
\* candidates: the first that parses
\* variant: only the first candidate is tried
FirstParsed_OnlyFirst(candidates) ==
    IF candidates = <<>> THEN [ok |-> FALSE, val |-> NoValue]
    ELSE JsonLoads(candidates[1])

RECURSIVE FirstParsed(_)
FirstParsed(candidates) ==
    IF candidates = <<>> THEN [ok |-> FALSE, val |-> NoValue]
    ELSE LET r == JsonLoads(candidates[1])
         IN  IF r.ok THEN r ELSE FirstParsed(Tail(candidates))

\* utils.py:81, the length of the preview
PreviewLen == 200

Preview_Whole(s) == s

\* response[:200] + ("..." if len(response) > 200 else "")
Preview(s) ==
    IF Len(s) > PreviewLen THEN SubSeq(s, 1, PreviewLen) \o <<".", ".", ".">> ELSE s

\* the outcomes of the extractor: a return value, or one of its two
\* ValueErrors, the second with the preview in its message; step is the
\* place of the chain where the function was left
Returned(v, step) == [kind |-> "ok", val |-> v, preview |-> <<>>, step |-> step]
EmptyResponse ==
    [kind |-> "Empty response from LLM", val |-> NoValue, preview |-> <<>>,
     step |-> "check"]
CouldNotExtract(preview) ==
    [kind |-> "Could not extract valid JSON from LLM response", val |-> NoValue,
     preview |-> preview, step |-> "end"]

\* the object candidates and the list candidates, in the order they are tried
ObjectCandidates(s) == SortedByLenDesc(FindAllBalanced(s, 1, "{", "}"))
ListCandidates(s) == SortedByLenDesc(FindAllBalanced(s, 1, "[", "]"))

\* what parse_llm_json(s) returns or raises
ParseLlmJson(s) ==
    LET direct == JsonLoads(s)
        tagged == FirstParsed(Stripped(FindAllFenced(s, 1, TaggedFence)))
        fenced == FirstParsed(Stripped(FindAllFenced(s, 1, Fence)))
        objects == FirstParsed(ObjectCandidates(s))
        lists == FirstParsed(ListCandidates(s))
    IN  IF s = <<>> \/ Strip(s) = <<>> THEN EmptyResponse
        ELSE IF direct.ok THEN Returned(direct.val, "direct")
        ELSE IF tagged.ok THEN Returned(tagged.val, "tagged")
        ELSE IF fenced.ok THEN Returned(fenced.val, "fenced")
        ELSE IF objects.ok THEN Returned(objects.val, "objects")
        ELSE IF lists.ok THEN Returned(lists.val, "lists")
        ELSE CouldNotExtract(Preview(s))

\* largest number of pieces an input text is put together from
MaxPieces == 3

\* a run of n letters
Prose(n) == [i \in 1..n |-> "p"]

\* the pieces: single characters, JSON texts, fences and long prose
Pieces ==
    { <<c>> : c \in {"p", " ", "{", "}", "[", "]", ",", ":", "q", "b", "1", "2"} }
    \cup { <<"q", "p", "q", ":">>,
           <<"{", "q", "p", "q", ":", "1", "}">>,
           <<"{", "q", "p", "q", ":", "2", "}">>,
           <<"{", "q", "p", "q", ":", "{", "q", "p", "q", ":", "1", "}", "}">>,
           <<"{", "q", "p", "q", ":", "{", "q", "p", "q", ":", "{", "}", "}", "}">>,
           <<"[", "1", ",", "2", "]">>,
           <<"[", "[", "1", "]", "]">>,
           Fence, TaggedFence,
           TaggedFence \o <<" ", "{", "q", "p", "q", ":", "1", "}", " ">> \o Fence,
           Prose(PreviewLen), Prose(PreviewLen + 1) }

RECURSIVE Inputs(_)
Inputs(n) ==
    IF n = 0 THEN { <<>> }
    ELSE LET shorter == Inputs(n - 1)
         IN  shorter \cup { x \o y : x \in shorter, y \in Pieces }

Pending == [kind |-> "pending", val |-> NoValue, preview |-> <<>>, step |-> "none"]

ParseIdle == raw_response = <<>> /\ parsed = Pending

ParseInit ==
    /\ raw_response \in Inputs(MaxPieces)
    /\ parsed = Pending

parse_llm_json ==
    /\ parsed = Pending
    /\ parsed' = ParseLlmJson(raw_response)
    /\ UNCHANGED raw_response
    /\ UNCHANGED outsideParse

(***************************************************************************)
(* The Linear client, and the workflows that call it with the agents, the  *)
(* pattern store and the file writers.                                     *)
(***************************************************************************)
\* the values of LINEAR_ENABLE_WRITES
Unset == [set |-> FALSE, value |-> <<>>]
SetTo(value) == [set |-> TRUE, value |-> value]

EnvValues ==
    { Unset, SetTo(<<>>), SetTo(<<"t", "r", "u", "e">>), SetTo(<<"T", "r", "u", "E">>),
      SetTo(<<"1">>), SetTo(<<"Y", "E", "S">>), SetTo(<<"f", "a", "l", "s", "e">>),
      SetTo(<<" ", "y", "e", "s">>) }

\* os.getenv(name, default)
Getenv(variable, default) == IF variable.set THEN variable.value ELSE default

GetLinearWritesEnabled_AnyValue(variable) == variable.set

\* config.get_linear_writes_enabled()
GetLinearWritesEnabled(variable) ==
    Lower(Getenv(variable, <<"f", "a", "l", "s", "e">>))
        \in { <<"t", "r", "u", "e">>, <<"1">>, <<"y", "e", "s">> }

\* call_agent_with_retry's default for max_retries
DefaultMaxRetries == 3

\* what a request to the API leads to: requests.post raises, the reply
\* holds errors, the reply lacks what the caller looks for (the issue, or
\* success), or it holds it
Replies == { "RequestException", "errors", "lacking", "data" }

\* Python's None where a text is expected
NoText == <<"None">>

\* the issues Linear may hold under the identifier: title and description
Issues ==
    { [id |-> <<"i">>, title |-> t, description |-> d] :
        t \in { <<>>, <<"t">> }, d \in { NoText, <<"a">> } }

NoIssue == [id |-> <<>>, title |-> <<>>, description |-> <<>>]

\* what an entry point returned or raised
NoOutcome ==
    [kind |-> "none", success |-> FALSE, error |-> <<>>, validity |-> 0, severity |-> 0,
     ai_comment |-> <<>>, agents_used |-> <<>>, findings |-> <<>>,
     recommendations |-> <<>>, pattern_matches |-> <<>>]

\* triage.format_ai_comment(validity, severity)
FormatAiComment(v, sv) == <<"comment", ToString(v), ToString(sv)>>

\* the TriageResult of the except clause
TriageFailure(e) == [NoOutcome EXCEPT !.kind = "returned", !.error = Str(e)]

\* the TriageResult of the try clause
TriageSuccess ==
    [NoOutcome EXCEPT !.kind = "returned", !.success = TRUE, !.validity = validity,
                      !.severity = severity,
                      !.ai_comment = FormatAiComment(validity, severity),
                      !.agents_used = <<"analysis-expert", "bug-hunter">>]

\* the InvestigationResult of the except clause
InvestigationFailure(e) == [NoOutcome EXCEPT !.kind = "returned", !.error = Str(e)]

\* the InvestigationResult of the try clause
InvestigationSuccess ==
    [NoOutcome EXCEPT !.kind = "returned", !.success = TRUE, !.findings = findings,
                      !.recommendations = recommendations,
                      !.pattern_matches = pattern_matches,
                      !.agents_used = <<"synthesis-master">>]

\* update_issue called on its own raises or returns None
Raised(e) == [NoOutcome EXCEPT !.kind = "raised", !.error = Str(e)]
ReturnedNone == [NoOutcome EXCEPT !.kind = "returned", !.success = TRUE]

environment == <<env_writes, api_key>>
triageLocals == <<writes_enabled, calls, validity, severity, saved>>
investigationLocals == <<issue, similar_issues, pattern_matches, findings, recommendations>>

WorkflowIdle ==
    /\ workflow = "none"
    /\ wpc = "idle"
    /\ thrown = NoError
    /\ finished = NoOutcome
    /\ requests = <<>>
    /\ replies = <<>>
    /\ update_from = 0
    /\ writes_enabled = FALSE
    /\ calls = <<>>
    /\ validity = 0
    /\ severity = 0
    /\ saved = <<>>
    /\ issue = NoIssue
    /\ similar_issues = <<>>
    /\ pattern_matches = <<>>
    /\ findings = <<>>
    /\ recommendations = <<>>

\* variant: the except clause names the exceptions it expects
Raise_RuntimeErrorOnly(e) ==
    /\ thrown' = e
    /\ wpc' = "done"
    /\ finished' = IF e.kind # "RuntimeError" THEN Raised(e)
                   ELSE IF workflow = "triage" THEN TriageFailure(e)
                   ELSE IF workflow = "investigation" THEN InvestigationFailure(e)
                   ELSE Raised(e)

\* an exception e leaves the statement that is running: the except clause
\* of a workflow returns the failure result, update_issue on its own lets
\* the exception pass
Raise(e) ==
    /\ thrown' = e
    /\ wpc' = "done"
    /\ finished' = IF workflow = "triage" THEN TriageFailure(e)
                   ELSE IF workflow = "investigation" THEN InvestigationFailure(e)
                   ELSE Raised(e)

\* the caller goes on at position next
GoOn(next) == wpc' = next /\ UNCHANGED <<finished, thrown>>

\* variant: the caller goes on whatever the reply holds
MakeGraphqlRequest_IgnoresReply(name, reply, Then) ==
    IF ~api_key
    THEN Raise(Error("RuntimeError", 0)) /\ UNCHANGED <<requests, replies>>
    ELSE /\ requests' = Append(requests, name)
         /\ replies' = Append(replies, reply)
         /\ Then

\* linear_client._make_graphql_request for the query or mutation name, with
\* the reply it gets; the caller does Then if it finds what it looks for
MakeGraphqlRequest(name, reply, Then) ==
    IF ~api_key
    THEN Raise(Error("RuntimeError", 0)) /\ UNCHANGED <<requests, replies>>
    ELSE /\ requests' = Append(requests, name)
         /\ replies' = Append(replies, reply)
         /\ IF reply = "data" THEN Then ELSE Raise(Error("RuntimeError", 0))

(* execute_triage *)
\* triage.py 64-69
execute_triage ==
    /\ wpc = "idle"
    /\ workflow' = "triage"
    /\ wpc' = "fetch"
    /\ writes_enabled' = GetLinearWritesEnabled(env_writes)
    /\ UNCHANGED <<environment, requests, replies, update_from, calls, validity, severity, saved,
                   finished, thrown, investigationLocals>>
    /\ UNCHANGED <<storeVars, retryVars, parseVars, writerVars>>

\* triage.py 76: fetch_issue
TriageFetch ==
    /\ workflow = "triage" /\ wpc = "fetch"
    /\ \E reply \in Replies : MakeGraphqlRequest("GetIssue", reply, GoOn("analyze"))
    /\ UNCHANGED <<workflow, environment, update_from, triageLocals, investigationLocals>>
    /\ UNCHANGED <<storeVars, retryVars, parseVars, writerVars>>

\* triage.py 80: the call of the analysis-expert agent
TriageAnalyze ==
    /\ workflow = "triage" /\ wpc = "analyze"
    /\ Enter(DefaultMaxRetries)
    /\ calls' = Append(calls, [agent |-> "analysis-expert", before |-> Len(responses)])
    /\ wpc' = "validity"
    /\ UNCHANGED <<workflow, environment, requests, replies, update_from, writes_enabled, validity,
                   severity, saved, finished, thrown, investigationLocals>>
    /\ UNCHANGED <<storeVars, parseVars, writerVars>>

\* variant: the second agent is called without waiting for the first
TriageValidity_Early ==
    /\ workflow = "triage" /\ wpc = "validity" /\ pc \in {"loop", "returned"}
    /\ validity' = result
    /\ Enter(DefaultMaxRetries)
    /\ calls' = Append(calls, [agent |-> "bug-hunter", before |-> Len(responses)])
    /\ wpc' = "severity"
    /\ UNCHANGED <<workflow, environment, requests, replies, update_from, writes_enabled, severity,
                   saved, finished, thrown, investigationLocals>>
    /\ UNCHANGED <<storeVars, parseVars, writerVars>>

\* triage.py 80-89: the first call returns the ValidityAnalysis, and the
\* bug-hunter agent is called
TriageValidity ==
    /\ workflow = "triage" /\ wpc = "validity" /\ pc = "returned"
    /\ validity' = result
    /\ Enter(DefaultMaxRetries)
    /\ calls' = Append(calls, [agent |-> "bug-hunter", before |-> Len(responses)])
    /\ wpc' = "severity"
    /\ UNCHANGED <<workflow, environment, requests, replies, update_from, writes_enabled, severity,
                   saved, finished, thrown, investigationLocals>>
    /\ UNCHANGED <<storeVars, parseVars, writerVars>>

\* triage.py 89-98: the second call returns the SeverityAnalysis
TriageSeverity ==
    /\ workflow = "triage" /\ wpc = "severity" /\ pc = "returned"
    /\ severity' = result
    /\ wpc' = "save"
    /\ UNCHANGED <<workflow, environment, requests, replies, update_from, writes_enabled, calls,
                   validity, saved, finished, thrown, investigationLocals>>
    /\ UNCHANGED <<storeVars, retryVars, parseVars, writerVars>>

\* triage.py 132: a call of an agent raises
TriageAgentRaises ==
    /\ workflow = "triage" /\ wpc \in {"validity", "severity"} /\ pc = "raised"
    /\ Raise(raised)
    /\ UNCHANGED <<workflow, environment, requests, replies, update_from, triageLocals,
                   investigationLocals>>
    /\ UNCHANGED <<storeVars, retryVars, parseVars, writerVars>>

\* triage.py 101-110: save_analysis writes the file or raises OSError; then
\* update_issue is called
TriageSave ==
    /\ workflow = "triage" /\ wpc = "save"
    /\ \/ /\ saved' = Append(saved, [comment |-> FormatAiComment(validity, severity),
                                     writes_enabled |-> writes_enabled])
          /\ wpc' = "update"
          /\ update_from' = Len(requests)
          /\ UNCHANGED <<finished, thrown>>
       \/ /\ Raise(Error("OSError", 0))
          /\ UNCHANGED <<saved, update_from>>
    /\ UNCHANGED <<workflow, environment, requests, replies, writes_enabled, calls, validity,
                   severity, investigationLocals>>
    /\ UNCHANGED <<storeVars, retryVars, parseVars, writerVars>>

(* linear_client.update_issue *)
\* update_issue called on its own
update_issue ==
    /\ wpc = "idle"
    /\ workflow' = "update_issue"
    /\ wpc' = "update"
    /\ update_from' = Len(requests)
    /\ UNCHANGED <<environment, requests, replies, finished, thrown, triageLocals,
                   investigationLocals>>
    /\ UNCHANGED <<storeVars, retryVars, parseVars, writerVars>>

\* update_issue returns: execute_triage returns its result, lines 112-130
Return ==
    /\ wpc' = "done"
    /\ finished' = IF workflow = "triage" THEN TriageSuccess ELSE ReturnedNone
    /\ UNCHANGED thrown

\* linear_client.py 137-141: the check of the write control
UpdateIssueCheck ==
    /\ wpc = "update"
    /\ IF GetLinearWritesEnabled(env_writes) THEN GoOn("priority") ELSE Return
    /\ UNCHANGED <<workflow, environment, requests, replies, update_from, triageLocals,
                   investigationLocals>>
    /\ UNCHANGED <<storeVars, retryVars, parseVars, writerVars>>

\* linear_client.py 143-161: the priority update
UpdateIssuePriority ==
    /\ wpc = "priority"
    /\ \E reply \in Replies :
          MakeGraphqlRequest("UpdateIssuePriority", reply, GoOn("comment"))
    /\ UNCHANGED <<workflow, environment, update_from, triageLocals, investigationLocals>>
    /\ UNCHANGED <<storeVars, retryVars, parseVars, writerVars>>

\* linear_client.py 163-182: the comment
UpdateIssueComment ==
    /\ wpc = "comment"
    /\ \E reply \in Replies : MakeGraphqlRequest("AddComment", reply, Return)
    /\ UNCHANGED <<workflow, environment, update_from, triageLocals, investigationLocals>>
    /\ UNCHANGED <<storeVars, retryVars, parseVars, writerVars>>

(* execute_investigation *)
\* Citation(...): pydantic raises ValidationError when a text with
\* min_length=1 is empty
ValidCitation(c) == c.source_id # <<>> /\ c.source_url # <<>> /\ c.excerpt # <<>>

IssueUrl(id) == <<"https://linear.app/issue/">> \o id

\* LinearHistoryResearcher.find_similar_issues, behind its fetch_issue: the
\* list holds the current issue
FindSimilarIssues(current_issue) ==
    <<[id |-> current_issue.id, url |-> IssueUrl(current_issue.id),
       title |-> current_issue.title]>>

\* confidence_map of execute_investigation, and the confidence of a pattern
\* match mapped to a level
ConfidenceMap(level) ==
    CASE level = "low" -> <<3, 10>> [] level = "medium" -> <<6, 10>> [] level = "high" -> <<9, 10>>

Level(confidence) ==
    IF FloatGeq(confidence, <<4, 5>>) /\ confidence # <<4, 5>> THEN "high" ELSE "medium"

\* _synthesize_findings: ok is FALSE when a Citation is not valid; a finding
\* is named by what its text says
SynthesizeFindings(issue_data, similar, matches) ==
    LET c1 == [source_type |-> "linear_issue", source_id |-> similar[1].id,
               source_url |-> similar[1].url, excerpt |-> similar[1].title]
        c2 == [source_type |-> "pattern", source_id |-> <<"pattern_store">>,
               source_url |-> <<>>, excerpt |-> <<"Pattern: ">> \o matches[1].description]
        c3 == [source_type |-> "linear_issue", source_id |-> issue_data.id,
               source_url |-> IssueUrl(issue_data.id), excerpt |-> issue_data.title]
        f1 == IF similar # <<>>
              THEN <<[finding |-> "similar historical issues", confidence |-> "high",
                      citations |-> <<c1>>]>>
              ELSE <<>>
        f2 == IF matches # <<>>
              THEN <<[finding |-> "historical pattern",
                      confidence |-> Level(matches[1].confidence), citations |-> <<c2>>]>>
              ELSE <<>>
        f3 == IF f1 \o f2 = <<>>
              THEN <<[finding |-> "no similar historical issues", confidence |-> "medium",
                      citations |-> <<c3>>]>>
              ELSE <<>>
    IN  [ok |-> \A f \in {f1, f2, f3} : f # <<>> => ValidCitation(f[1].citations[1]),
         findings |-> f1 \o f2 \o f3]

\* _generate_recommendations
GenerateRecommendations(issue_data, found, matches) ==
    LET c1 == [source_type |-> "pattern", source_id |-> <<"pattern_store">>,
               source_url |-> <<>>, excerpt |-> <<"Pattern successfully applied">>]
        r1 == IF matches # <<>>
              THEN <<[recommendation |-> <<"Apply proven resolution pattern: ">>
                                            \o matches[1].description,
                      reasoning |-> <<"This approach has been successful">>,
                      confidence |-> Level(matches[1].confidence), citations |-> <<c1>>]>>
              ELSE <<>>
        Review(f) == [recommendation |-> <<"Review similar resolved issues">>,
                      reasoning |-> <<"Historical data shows known solutions">>,
                      confidence |-> "medium", citations |-> <<f.citations[1]>>]
        reviewed == SelectSeq(found, LAMBDA f : f.finding = "similar historical issues")
        r2 == [i \in 1..Len(reviewed) |-> Review(reviewed[i])]
        c3 == [source_type |-> "linear_issue", source_id |-> issue_data.id,
               source_url |-> IssueUrl(issue_data.id),
               excerpt |-> <<"Standard investigation recommended">>]
        r3 == IF r1 \o r2 = <<>>
              THEN <<[recommendation |-> <<"Conduct detailed technical investigation">>,
                      reasoning |-> <<"No historical precedent found">>,
                      confidence |-> "medium", citations |-> <<c3>>]>>
              ELSE <<>>
    IN  [ok |-> r1 # <<>> => ValidCitation(c1),
         recommendations |-> r1 \o r2 \o r3]

\* the loop of step 6: record_pattern for every recommendation of high
\* confidence
RECURSIVE RecordPatterns(_, _, _)
RecordPatterns(lines, recs, t) ==
    IF recs = <<>> THEN lines
    ELSE LET r == recs[1]
             next == IF FloatGeq(ConfidenceMap(r.confidence), <<7, 10>>)
                     THEN AppendLine(lines, NewPattern(t, r.recommendation, r.reasoning,
                                                       r.citations, "null"))
                     ELSE lines
         IN  RecordPatterns(next, Tail(recs), t)

\* investigation.py 51-57
execute_investigation ==
    /\ wpc = "idle"
    /\ workflow' = "investigation"
    /\ wpc' = "fetch"
    /\ UNCHANGED <<environment, requests, replies, update_from, finished, thrown, triageLocals,
                   investigationLocals>>
    /\ UNCHANGED <<storeVars, retryVars, parseVars, writerVars>>

\* investigation.py 57: fetch_issue
InvestigationFetch ==
    /\ workflow = "investigation" /\ wpc = "fetch"
    /\ \E reply \in Replies, found \in Issues :
          /\ MakeGraphqlRequest("GetIssue", reply, GoOn("history"))
          /\ issue' = IF wpc' = "history" THEN found ELSE issue
    /\ UNCHANGED <<workflow, environment, update_from, triageLocals, similar_issues,
                   pattern_matches, findings, recommendations>>
    /\ UNCHANGED <<storeVars, retryVars, parseVars, writerVars>>

\* investigation.py 61-62: find_similar_issues fetches the issue again and
\* slices its title and its description
InvestigationHistory ==
    /\ workflow = "investigation" /\ wpc = "history"
    /\ \E reply \in Replies :
          MakeGraphqlRequest("GetIssue", reply,
              IF issue.description = NoText
              THEN Raise(Error("TypeError", 0))
              ELSE GoOn("patterns"))
    /\ similar_issues' = IF wpc' = "patterns" THEN FindSimilarIssues(issue)
                         ELSE similar_issues
    /\ UNCHANGED <<workflow, environment, update_from, triageLocals, issue,
                   pattern_matches, findings, recommendations>>
    /\ UNCHANGED <<storeVars, retryVars, parseVars, writerVars>>

\* investigation.py 66-68: LearningStore().find_matching_patterns
InvestigationPatterns ==
    /\ workflow = "investigation" /\ wpc = "patterns"
    /\ pattern_matches' = IF ~fileExists THEN <<>>
                          ELSE SortByConfidenceDesc(
                                  Collect(log, issue.description, <<7, 10>>))
    /\ GoOn("findings")
    /\ UNCHANGED <<workflow, environment, requests, replies, update_from, triageLocals, issue,
                   similar_issues, findings, recommendations>>
    /\ UNCHANGED <<storeVars, retryVars, parseVars, writerVars>>

\* investigation.py 72: _synthesize_findings
InvestigationFindings ==
    /\ workflow = "investigation" /\ wpc = "findings"
    /\ LET r == SynthesizeFindings(issue, similar_issues, pattern_matches)
       IN  IF r.ok
           THEN findings' = r.findings /\ GoOn("recommendations")
           ELSE Raise(Error("ValidationError", 0)) /\ UNCHANGED findings
    /\ UNCHANGED <<workflow, environment, requests, replies, update_from, triageLocals, issue,
                   similar_issues, pattern_matches, recommendations>>
    /\ UNCHANGED <<storeVars, retryVars, parseVars, writerVars>>

\* investigation.py 76-88: _generate_recommendations and the loop that
\* records the patterns
InvestigationRecommendations ==
    /\ workflow = "investigation" /\ wpc = "recommendations"
    /\ LET r == GenerateRecommendations(issue, findings, pattern_matches)
       IN  IF r.ok
           THEN /\ recommendations' = r.recommendations
                /\ log' = RecordPatterns(log, r.recommendations, now)
                /\ fileExists' = (fileExists \/ log' # log)
                /\ applied' = [i \in 1..Len(log') |->
                                  IF i <= Len(applied) THEN applied[i]
                                  ELSE [first |-> 0] @@ NoUpdates]
                /\ GoOn("save")
           ELSE /\ Raise(Error("ValidationError", 0))
                /\ UNCHANGED <<recommendations, log, fileExists, applied>>
    /\ UNCHANGED <<workflow, environment, requests, replies, update_from, triageLocals, issue,
                   similar_issues, pattern_matches, findings>>
    /\ UNCHANGED <<now, updates, last, tally, retryVars, parseVars, writerVars>>

\* investigation.py 90-111: the result is built, _save_investigation writes
\* the file or raises OSError, and the result is returned
InvestigationSave ==
    /\ workflow = "investigation" /\ wpc = "save"
    /\ \/ /\ wpc' = "done"
          /\ finished' = InvestigationSuccess
          /\ UNCHANGED thrown
       \/ Raise(Error("OSError", 0))
    /\ UNCHANGED <<workflow, environment, requests, replies, update_from, triageLocals,
                   investigationLocals>>
    /\ UNCHANGED <<storeVars, retryVars, parseVars, writerVars>>

(***************************************************************************)
(* Several processes on one store.  record_pattern writes its line in one  *)
(* step; update_outcome reads the file in one step and rewrites it in a    *)
(* later one.                                                              *)
(***************************************************************************)
MaxWriters == 2

AtRest == [pc |-> "idle", patterns |-> <<>>, pattern_id |-> <<>>, seen |-> 0]

\* the ledger of a log: for each line the pattern id and its uses
LedgerOf(lines) ==
    [i \in 1..Len(lines) |-> [id |-> lines[i].pattern_id, uses |-> lines[i].total_uses]]

SingleWriter ==
    /\ writers = 1
    /\ wstate = [w \in 1..MaxWriters |-> AtRest]
    /\ version = 0
    /\ ledger = LedgerOf(log)

\* record_pattern, by writer w
WriterRecords(w, issue_pattern, recommendation, citations, outcome, t) ==
    /\ wstate[w].pc = "idle"
    /\ Len(ledger) < MaxLog
    /\ now' = t
    /\ LET pattern == NewPattern(t, issue_pattern, recommendation, citations, outcome)
       IN  /\ log' = AppendLine(log, pattern)
           /\ fileExists' = TRUE
           /\ ledger' = Append(ledger, [id |-> pattern.pattern_id, uses |-> 1])
           /\ last' = [Call("record_pattern") EXCEPT
                          !.text = issue_pattern, !.outcome = outcome,
                          !.id = pattern.pattern_id]
    /\ version' = version + 1
    /\ UNCHANGED <<updates, writers, wstate, applied, tally>>
    /\ UNCHANGED <<retryVars, parseVars, workflowVars>>

\* update_outcome by writer w, lines 137-164: the file is read; without a
\* file or without a matching line the call returns False
WriterReads(w, pattern_id, outcome, t) ==
    /\ wstate[w].pc = "idle"
    /\ updates < MaxUpdates
    /\ IF ~fileExists \/ ~Updated(log, pattern_id)
       THEN /\ last' = [Call("update_outcome") EXCEPT
                           !.id = pattern_id, !.outcome = outcome, !.ok = FALSE]
            /\ UNCHANGED <<now, updates, wstate>>
       ELSE /\ wstate' = [wstate EXCEPT ![w] =
                             [pc |-> "rewrite",
                              patterns |-> ReadAndUpdate(log, pattern_id, outcome, t),
                              pattern_id |-> pattern_id, seen |-> version]]
            /\ now' = t
            /\ updates' = updates + 1
            /\ UNCHANGED last
    /\ UNCHANGED <<fileExists, log, writers, version, ledger, applied, tally>>
    /\ UNCHANGED <<retryVars, parseVars, workflowVars>>

\* update_outcome by writer w, lines 166-172: the file is rewritten from the
\* list read before, and the call returns True
WriterRewrites(w) ==
    /\ wstate[w].pc = "rewrite"
    /\ log' = wstate[w].patterns
    /\ version' = version + 1
    /\ ledger' = [i \in 1..Len(ledger) |->
                     IF ledger[i].id = wstate[w].pattern_id
                     THEN [ledger[i] EXCEPT !.uses = @ + 1]
                     ELSE ledger[i]]
    /\ wstate' = [wstate EXCEPT ![w] = AtRest]
    /\ last' = [Call("update_outcome") EXCEPT !.id = wstate[w].pattern_id, !.ok = TRUE]
    /\ UNCHANGED <<fileExists, now, updates, writers, applied, tally>>
    /\ UNCHANGED <<retryVars, parseVars, workflowVars>>

\* the environment of the store, the coordinator and the extractor alone
NoWorkflow == WorkflowIdle /\ env_writes = Unset /\ api_key = FALSE

Init == StoreInit /\ RetryIdle /\ ParseIdle /\ NoWorkflow /\ SingleWriter

Next == RecordStep \/ FindStep \/ UpdateStep

Spec == Init /\ [][Next]_vars

\* the retry coordinator alone, on a store that is never used
RetryInit == RetryIdle /\ StoreInit /\ ~fileExists /\ ParseIdle /\ NoWorkflow /\ SingleWriter

RetryNext ==
    \/ \E n \in 0..MaxRetries : call_agent_with_retry(n)
    \/ AttemptInvokerFails
    \/ AttemptExtractionFails
    \/ AttemptValidationFails
    \/ AttemptSchemaCallFails
    \/ AttemptSucceeds
    \/ Exhausted

SpecRetry == RetryInit /\ [][RetryNext]_vars

\* the extractor alone
ExtractInit == ParseInit /\ StoreInit /\ ~fileExists /\ RetryIdle /\ NoWorkflow /\ SingleWriter

ExtractNext == parse_llm_json

SpecExtract == ExtractInit /\ [][ExtractNext]_vars

\* the workflows, with the agents, the file system and the Linear API; the
\* store is absent or holds a pattern that resolved its issue
KnownPattern == <<NewPattern(0, <<"a">>, <<"r">>, <<>>, "resolved")>>

WorkflowInit ==
    /\ WorkflowIdle
    /\ env_writes \in EnvValues
    /\ api_key \in BOOLEAN
    /\ RetryIdle /\ ParseIdle
    /\ \/ fileExists = FALSE /\ log = <<>>
       \/ fileExists = TRUE /\ log = KnownPattern
    /\ applied = [i \in 1..Len(log) |-> [first |-> 1] @@ NoUpdates]
    /\ tally = <<>>
    /\ now = 0
    /\ updates = 0
    /\ last = Call("init")
    /\ SingleWriter

WorkflowNext ==
    \/ execute_triage
    \/ TriageFetch
    \/ TriageAnalyze
    \/ TriageValidity
    \/ TriageSeverity
    \/ TriageAgentRaises
    \/ TriageSave
    \/ update_issue
    \/ UpdateIssueCheck
    \/ UpdateIssuePriority
    \/ UpdateIssueComment
    \/ execute_investigation
    \/ InvestigationFetch
    \/ InvestigationHistory
    \/ InvestigationPatterns
    \/ InvestigationFindings
    \/ InvestigationRecommendations
    \/ InvestigationSave
    \/ AttemptInvokerFails
    \/ AttemptExtractionFails
    \/ AttemptValidationFails
    \/ AttemptSchemaCallFails
    \/ AttemptSucceeds

SpecWorkflow == WorkflowInit /\ [][WorkflowNext]_vars

\* one store with one writer or with several
WritersInit ==
    /\ StoreInit /\ RetryIdle /\ ParseIdle /\ NoWorkflow
    /\ writers \in 1..MaxWriters
    /\ wstate = [w \in 1..MaxWriters |-> AtRest]
    /\ version = 0
    /\ ledger = LedgerOf(log)

WriterRecordStep ==
    \E w \in 1..writers, ip \in {<<"a">>, <<"b">>}, r \in Recommendations,
       c \in CitationLists, o \in RecordOutcomes, t \in now..MaxClock :
        WriterRecords(w, ip, r, c, o, t)

WriterReadStep ==
    \E w \in 1..writers,
       id \in {ledger[i].id : i \in 1..Len(ledger)} \cup {UnknownId},
       o \in UpdateOutcomes, t \in now..MaxClock :
        WriterReads(w, id, o, t)

WriterRewriteStep == \E w \in 1..writers : WriterRewrites(w)

WritersNext == WriterRecordStep \/ WriterReadStep \/ WriterRewriteStep

SpecWriters == WritersInit /\ [][WritersNext]_vars

(***************************************************************************)
(* Properties of the pattern store.                                        *)
(***************************************************************************)
Records == {log[i] : i \in 1..Len(log)}

\* confidence == successful_resolutions / total_uses, on the fraction
RatioHolds(p) == p.confidence[1] * p.total_uses = p.successful_resolutions * p.confidence[2]

CountsInRange(p) ==
    /\ p.total_uses >= 1
    /\ 0 <= p.successful_resolutions
    /\ p.successful_resolutions <= p.total_uses

\* a step of the store made by the call that  last'  describes
StoreStepOf(op) == last'.op = op /\ storeVars' # storeVars

\* C1 as stated: after every call every stored pattern has confidence ==
\* successful_resolutions / total_uses, total_uses >= 1 and
\* 0 <= successful_resolutions <= total_uses.
C1_ConfidenceIsRatio == \A p \in Records : RatioHolds(p) /\ CountsInRange(p)

\* C1 amended: every stored pattern has total_uses >= 1 and
\* 0 <= successful_resolutions <= total_uses, and its confidence is
\* successful_resolutions / total_uses unless it was recorded with an outcome
\* other than resolved and never updated (total_uses = 1, no success), when
\* its confidence is 0.5.
C1_ConfidenceIsRatioOnceUsed ==
    \A p \in Records :
        /\ CountsInRange(p)
        /\ \/ RatioHolds(p)
           \/ /\ p.total_uses = 1
              /\ p.successful_resolutions = 0
              /\ p.outcome # "resolved"
              /\ p.confidence = Half

C1_Witness ==
    /\ last.op = "update_outcome"
    /\ last.ok
    /\ \E p \in Records : p.total_uses = 3 /\ p.successful_resolutions = 1 /\ p.confidence = <<1, 3>>
    /\ \E p \in Records : p.total_uses = 1 /\ p.outcome = "null" /\ p.confidence = Half

\* C4: update_outcome on a pattern_id present in the log returns true and, in
\* the record of that id, adds 1 to total_uses, adds 1 to
\* successful_resolutions iff the outcome is resolved, and sets confidence to
\* the new successful_resolutions / the new total_uses.
C4_UpdateOutcomeFound ==
    [][ (StoreStepOf("update_outcome") /\ \E p \in Records : p.pattern_id = last'.id)
        => /\ last'.ok
           /\ Len(log') = Len(log)
           /\ \A i \in 1..Len(log) :
                 log[i].pattern_id = last'.id =>
                    /\ log'[i].total_uses = log[i].total_uses + 1
                    /\ log'[i].successful_resolutions =
                          log[i].successful_resolutions
                             + (IF last'.outcome = "resolved" THEN 1 ELSE 0)
                    /\ RatioHolds(log'[i]) ]_vars

C4_Witness ==
    /\ last.op = "update_outcome"
    /\ last.ok
    /\ last.outcome = "not_resolved"
    /\ \E p \in Records :
          /\ p.pattern_id = last.id
          /\ p.successful_resolutions = 1
          /\ p.total_uses = 2
          /\ p.confidence = Half

\* C5: record_pattern creates a record with total_uses = 1,
\* successful_resolutions = 1 if the outcome is resolved else 0, confidence
\* 1.0 if the outcome is resolved else 0.5, and returns that record's
\* pattern_id.
C5_RecordPatternInitialValues ==
    last.op = "record_pattern" =>
        /\ log # <<>>
        /\ LET p == log[Len(log)]
           IN  /\ p.issue_pattern = last.text
               /\ p.outcome = last.outcome
               /\ p.total_uses = 1
               /\ p.successful_resolutions = (IF last.outcome = "resolved" THEN 1 ELSE 0)
               /\ p.confidence = (IF last.outcome = "resolved" THEN <<1, 1>> ELSE <<1, 2>>)
               /\ last.id = p.pattern_id

C5_Witness ==
    /\ last.op = "record_pattern"
    /\ last.outcome = "not_resolved"
    /\ log[Len(log)].confidence = <<1, 2>>
    /\ log[Len(log)].successful_resolutions = 0

\* C6: update_outcome with a pattern_id that no stored record has returns
\* false and leaves the store as it was: the records are the same and the
\* file is not created.
C6_UpdateOutcomeUnknownId ==
    [][ (StoreStepOf("update_outcome") /\ \A p \in Records : p.pattern_id # last'.id)
        => /\ ~last'.ok
           /\ log' = log
           /\ fileExists' = fileExists ]_vars

C6_Witness ==
    /\ last.op = "update_outcome"
    /\ ~last.ok
    /\ Len(log) = 2
    /\ \A p \in Records : p.pattern_id # last.id

\* a and b are the same letter up to case
SameLetter(a, b) ==
    \/ a = b
    \/ {a, b} = {"a", "A"}
    \/ {a, b} = {"b", "B"}

\* x occurs in y, case-insensitively
OccursIn(x, y) ==
    \E k \in 0..(Len(y) - Len(x)) : \A j \in 1..Len(x) : SameLetter(x[j], y[k + j])

\* the positions of the log that a query for d at threshold m is to return
Wanted(d, m) ==
    { i \in 1..Len(log) :
        /\ OccursIn(d, log[i].issue_pattern) \/ OccursIn(log[i].issue_pattern, d)
        /\ log[i].confidence[1] * m[2] >= m[1] * log[i].confidence[2] }

\* the PatternMatch that stands for the record at position i
ProjectionOf(i) ==
    [ pattern_id |-> log[i].pattern_id,
      description |-> log[i].issue_pattern,
      confidence |-> log[i].confidence,
      successful_resolutions |-> log[i].successful_resolutions,
      citations |-> log[i].citations ]

\* the ways to read the returned list as a list of log positions
Readings(ms) ==
    { f \in [1..Len(ms) -> 1..Len(log)] :
        /\ \A j \in 1..Len(ms) : ms[j] = ProjectionOf(f[j])
        /\ \A j, k \in 1..Len(ms) : j # k => f[j] # f[k] }

\* C7: find_matching_patterns(d, m) returns exactly the stored patterns whose
\* text contains d or is contained in d, case-insensitively, and whose
\* confidence is >= m (inclusive).
C7_FindReturnsExactlyMatches ==
    last.op = "find_matching_patterns" =>
        \E f \in Readings(last.matches) :
            {f[j] : j \in 1..Len(last.matches)} = Wanted(last.text, last.min_confidence)

C7_Witness ==
    /\ last.op = "find_matching_patterns"
    /\ last.min_confidence = <<7, 10>>
    /\ Len(last.matches) = 1
    /\ last.matches[1].confidence = <<7, 10>>
    /\ \E p \in Records : OccursIn(last.text, p.issue_pattern) /\ p.confidence = <<1, 2>>

\* C8: the returned list is ordered by confidence, largest first, and
\* returned patterns of equal confidence are in the order of their records in
\* the log.
C8_FindSortedStable ==
    last.op = "find_matching_patterns" =>
        \E f \in Readings(last.matches) :
            \A j, k \in 1..Len(last.matches) :
                j < k =>
                    LET a == last.matches[j].confidence
                        b == last.matches[k].confidence
                    IN  /\ a[1] * b[2] >= b[1] * a[2]
                        /\ a = b => f[j] < f[k]

C8_Witness ==
    /\ last.op = "find_matching_patterns"
    /\ Len(last.matches) = 2
    /\ last.matches[1].confidence = last.matches[2].confidence
    /\ last.matches[1].description # last.matches[2].description
    /\ last.matches[1].description = log[1].issue_pattern

\* C9 as stated: no two records of the log have the same pattern_id.
C9_PatternIdsUnique ==
    \A i, j \in 1..Len(log) : i # j => log[i].pattern_id # log[j].pattern_id

\* C10: record_pattern appends exactly one record at the end of the log and
\* leaves every earlier record unchanged and in place.
C10_RecordPatternAppends ==
    [][ StoreStepOf("record_pattern")
        => /\ Len(log') = Len(log) + 1
           /\ \A i \in 1..Len(log) : log'[i] = log[i]
           /\ log'[Len(log')].pattern_id = last'.id
           /\ log'[Len(log')].issue_pattern = last'.text ]_vars

C10_Witness ==
    /\ last.op = "record_pattern"
    /\ Len(log) = 2
    /\ log[1].issue_pattern # log[2].issue_pattern
    /\ log[2].issue_pattern = last.text

\* C11: with one writer, no record is ever removed from the log, no
\* total_uses decreases, and a stored record changes only in an
\* update_outcome call that names its pattern_id; find_matching_patterns
\* changes nothing.
C11_RecordsChangeOnlyByUpdate ==
    [][ /\ Len(log') >= Len(log)
        /\ \A i \in 1..Len(log) :
              /\ log'[i].pattern_id = log[i].pattern_id
              /\ log'[i].total_uses >= log[i].total_uses
              /\ log'[i] # log[i] =>
                    /\ last'.op = "update_outcome"
                    /\ last'.id = log[i].pattern_id
        /\ last'.op = "find_matching_patterns" =>
              /\ log' = log
              /\ fileExists' = fileExists ]_vars

C11_Witness ==
    /\ last.op = "update_outcome"
    /\ last.ok
    /\ Len(log) = 2
    /\ \E i, j \in 1..2 :
          /\ log[i].pattern_id = last.id
          /\ log[i].total_uses = 2
          /\ log[j].pattern_id # last.id
          /\ log[j].total_uses = 1
          /\ log[j].updated_at = log[j].created_at

\* C17: find_matching_patterns on a store whose file was never written
\* returns the empty list and does not create the file.
C17_FindOnMissingFile ==
    [][ (StoreStepOf("find_matching_patterns") /\ ~fileExists)
        => /\ last'.matches = <<>>
           /\ ~fileExists'
           /\ log' = log ]_vars

C17_Witness ==
    /\ last.op = "find_matching_patterns"
    /\ ~fileExists
    /\ last.text = <<"a">>
    /\ last.min_confidence = <<3, 10>>
    /\ last.matches = <<>>

\* the record at position i is in the list the latest call returned
ReturnedAt(i) == \E j \in 1..Len(last.matches) : last.matches[j] = ProjectionOf(i)

\* d and the text of the record at position i contain one another
TextsMatch(d, i) == OccursIn(d, log[i].issue_pattern) \/ OccursIn(log[i].issue_pattern, d)

\* C28: at min_confidence 0.7 a pattern recorded with a non-resolved outcome
\* is not returned as long as fewer than three update_outcome calls with
\* outcome resolved have been applied to it, and a pattern recorded as
\* resolved whose text matches is returned exactly as long as its
\* successful_resolutions / total_uses is not below 0.7, from the moment it
\* is recorded.
C28_ReturnedAtDefaultThreshold ==
    (last.op = "find_matching_patterns" /\ last.min_confidence = <<7, 10>>) =>
        /\ Len(applied) = Len(log)
        /\ \A i \in 1..Len(log) :
              /\ (applied[i].first = 0 /\ applied[i].resolved < 3) => ~ReturnedAt(i)
              /\ (applied[i].first = 1 /\ TextsMatch(last.text, i)) =>
                    (ReturnedAt(i) <=>
                        10 * log[i].successful_resolutions >= 7 * log[i].total_uses)

\* a pattern recorded as null is returned after three resolved updates
C28_Witness ==
    /\ last.op = "find_matching_patterns"
    /\ last.min_confidence = <<7, 10>>
    /\ \E i \in 1..Len(log) :
          /\ applied[i] = [first |-> 0, updated |-> 3, resolved |-> 3]
          /\ log[i].confidence = <<3, 4>>
          /\ ReturnedAt(i)

\* C29: find_matching_patterns called with the empty description returns
\* every stored pattern whose confidence is >= min_confidence, whatever its
\* text, and a stored pattern whose issue_pattern is empty is returned for
\* every description if its confidence is >= min_confidence.
C29_EmptyTextMatchesAll ==
    (last.op = "find_matching_patterns" /\ fileExists) =>
        \A i \in 1..Len(log) :
            LET enough == log[i].confidence[1] * last.min_confidence[2]
                             >= last.min_confidence[1] * log[i].confidence[2]
            IN  /\ last.text = <<>> => (ReturnedAt(i) <=> enough)
                /\ (log[i].issue_pattern = <<>> /\ enough) => ReturnedAt(i)

\* the empty description returns two patterns of different, non-empty texts
C29_Witness ==
    /\ last.op = "find_matching_patterns"
    /\ last.text = <<>>
    /\ Len(last.matches) = 2
    /\ last.matches[1].description = <<"a">>
    /\ last.matches[2].description = <<"A", "b">>

\* C24 as stated: a successful update_outcome changes exactly one record of
\* the log; the number and order of records are kept, every other record is
\* rewritten identically, and in the changed record pattern_id,
\* issue_pattern, recommendation, citations and created_at are unchanged.
C24_UpdateChangesOneRecord ==
    [][ (StoreStepOf("update_outcome") /\ last'.ok)
        => /\ Len(log') = Len(log)
           /\ Cardinality({ i \in 1..Len(log) : log'[i] # log[i] }) = 1
           /\ \A i \in 1..Len(log) :
                 /\ log'[i].pattern_id = log[i].pattern_id
                 /\ log'[i].issue_pattern = log[i].issue_pattern
                 /\ log'[i].recommendation = log[i].recommendation
                 /\ log'[i].citations = log[i].citations
                 /\ log'[i].created_at = log[i].created_at ]_vars

\* C25 as stated: with one writer, every stored pattern has total_uses = 1 +
\* the number of update_outcome calls that returned True for its pattern_id,
\* and successful_resolutions = (1 if it was recorded as resolved, else 0) +
\* the number of those calls whose outcome was resolved; so a pattern
\* recorded with another outcome has successful_resolutions <= total_uses - 1
\* and, once updated, a confidence below 1.
C25_UsesCountCalls ==
    /\ Len(applied) = Len(log)
    /\ \A i \in 1..Len(log) :
          LET c == CountOf(tally, log[i].pattern_id)
          IN  /\ log[i].total_uses = 1 + c.updated
              /\ log[i].successful_resolutions = applied[i].first + c.resolved
              /\ applied[i].first = 0 =>
                    /\ log[i].successful_resolutions <= log[i].total_uses - 1
                    /\ log[i].total_uses > 1 => ~FloatGeq(log[i].confidence, One)

(***************************************************************************)
(* Properties of the retry coordinator.                                    *)
(***************************************************************************)
AllFailed == \A k \in 1..Len(responses) : responses[k] # "ok"

\* C2: with max_retries >= 1 and every attempt failing, the agent is invoked
\* exactly max_retries times and then the call raises: never a further
\* invocation, never a raise after fewer.
C2_ExactlyMaxRetriesInvocations ==
    (pc # "idle" /\ max_retries >= 1 /\ AllFailed) =>
        /\ Len(responses) <= max_retries
        /\ pc # "returned"
        /\ pc = "raised" <=> Len(responses) = max_retries

C2_Witness ==
    /\ pc = "raised"
    /\ max_retries = 3
    /\ Len(responses) = 3
    /\ AllFailed
    /\ responses[1] = "TimeoutExpired"
    /\ responses[2] = "ValueError"
    /\ responses[3] = "ValidationError"

\* C3: when attempt k is the first that extracts and validates, the call
\* returns the value validated in attempt k after exactly k invocations, and
\* the agent is not invoked again.
C3_StopsOnFirstSuccess ==
    /\ [](\A k \in 1..Len(responses) :
            (responses[k] = "ok" /\ \A j \in 1..(k - 1) : responses[j] # "ok")
                => /\ pc = "returned"
                   /\ result = k
                   /\ Len(responses) = k
                   /\ k <= max_retries)
    /\ [][pc = "returned" => UNCHANGED <<responses, prompts, result, pc>>]_vars

C3_Witness ==
    /\ pc = "returned"
    /\ result = 3
    /\ responses = <<"ValueError", "ValueError", "ok">>

\* C12: when all max_retries >= 1 attempts fail, the exception that reaches
\* the caller is the one of the final attempt, never one of an earlier attempt.
C12_RaisesLastError ==
    (pc = "raised" /\ max_retries >= 1) =>
        /\ Len(responses) = max_retries
        /\ raised.at = max_retries
        /\ raised.kind = responses[max_retries]

C12_Witness ==
    /\ pc = "raised"
    /\ responses = <<"ValueError", "TimeoutExpired", "ValidationError">>
    /\ raised = [kind |-> "ValidationError", at |-> 3]

\* C13: an attempt whose agent invocation raises uses up one attempt like
\* any other failure: another attempt follows iff fewer than max_retries
\* attempts have been made, and the invoker's exception reaches the caller
\* iff it was raised in the final attempt.
C13_InvokerErrorIsRetried ==
    [][ (Len(responses') = Len(responses) + 1 /\ responses'[Len(responses')] # "ok")
        => LET n == Len(responses')
           IN  IF n < max_retries
               THEN /\ pc' = "loop"
                    /\ attempt' = n
                    /\ raised' = raised
               ELSE /\ pc' = "raised"
                    /\ raised' = [kind |-> responses'[n], at |-> n] ]_vars

C13_Witness ==
    /\ pc = "raised"
    /\ max_retries = 2
    /\ responses = <<"CalledProcessError", "TimeoutExpired">>
    /\ raised = [kind |-> "TimeoutExpired", at |-> 2]

\* the text last_error holds after the k-th invocation failed and the loop
\* went on
ErrorTextOf(k) ==
    IF responses[k] \in ValidationErrors
    THEN <<"Schema validation failed: ", responses[k], ToString(k)>>
    ELSE <<responses[k], ToString(k)>>

\* C21: the prompt of attempt 1 is the base prompt with no error text, and
\* the prompt of every attempt k >= 2 is the base prompt behind the error
\* text of attempt k-1, whichever of invocation, extraction or validation
\* failed there, never that of an older attempt.
C21_PromptCarriesPreviousError ==
    /\ Len(prompts) = Len(responses)
    /\ \A k \in 1..Len(prompts) :
          prompts[k] = IF k = 1 THEN <<"base">>
                       ELSE <<"Previous attempt failed with error: ">>
                                \o ErrorTextOf(k - 1) \o <<"base">>

C21_Witness ==
    /\ responses = <<"ValueError", "ValidationError", "TimeoutExpired">>
    /\ prompts[3] = <<"Previous attempt failed with error: ",
                      "Schema validation failed: ", "ValidationError", "2", "base">>
    /\ prompts[2] = <<"Previous attempt failed with error: ", "ValueError", "1", "base">>

Blank(s) == \A i \in 1..Len(s) : s[i] = " "

\* no text of the sequence texts is JSON
NoneParses(texts) == \A i \in 1..Len(texts) : ~JsonLoads(texts[i]).ok

\* no fenced block of s, tagged or not, holds JSON
NoFencedParse(s) ==
    /\ NoneParses(Stripped(FindAllFenced(s, 1, TaggedFence)))
    /\ NoneParses(Stripped(FindAllFenced(s, 1, Fence)))

\* no step of the chain yields a parse of s
NoStepParses(s) ==
    /\ ~JsonLoads(s).ok
    /\ NoFencedParse(s)
    /\ NoneParses(FindAllBalanced(s, 1, "{", "}"))
    /\ NoneParses(FindAllBalanced(s, 1, "[", "]"))

\* C16: parse_llm_json raises Empty response from LLM for the empty text and
\* for every text of blanks only, at the check that precedes all parsing;
\* it raises Could not extract valid JSON exactly when the text is not blank
\* and no step of the chain yields a parse, and the preview in the message
\* is the text itself if that has at most 200 characters and else its first
\* 200 characters followed by three full stops.
C16_EmptyAndExtractionErrors ==
    parsed # Pending =>
        /\ Blank(raw_response) => parsed = EmptyResponse /\ parsed.step = "check"
        /\ parsed.kind = "Empty response from LLM" => Blank(raw_response)
        /\ parsed.kind = "Could not extract valid JSON from LLM response"
              <=> ~Blank(raw_response) /\ NoStepParses(raw_response)
        /\ parsed.kind = "Could not extract valid JSON from LLM response" =>
              LET n == Len(raw_response)
                  kept == IF n <= PreviewLen THEN n ELSE PreviewLen
              IN  /\ \A i \in 1..kept : parsed.preview[i] = raw_response[i]
                  /\ n <= PreviewLen => Len(parsed.preview) = n
                  /\ n > PreviewLen =>
                        /\ Len(parsed.preview) = PreviewLen + 3
                        /\ \A i \in 1..3 : parsed.preview[PreviewLen + i] = "."

\* a text longer than the preview with an unclosed brace behind the prose
C16_Witness ==
    /\ parsed.kind = "Could not extract valid JSON from LLM response"
    /\ Len(raw_response) > PreviewLen + 1
    /\ raw_response[Len(raw_response)] = "{"
    /\ Len(parsed.preview) = PreviewLen + 3

\* the substrings <<i, j>> of s that are a well-formed JSON object or list
WellFormedSpans(s) ==
    { w \in (1..Len(s)) \X (1..Len(s)) :
        /\ w[1] < w[2]
        /\ <<s[w[1]], s[w[2]]>> \in { <<"{", "}">>, <<"[", "]">> }
        /\ JsonLoads(SubSeq(s, w[1], w[2])).ok }

SpanLen(w) == w[2] - w[1] + 1
ValueOf(s, w) == JsonLoads(SubSeq(s, w[1], w[2])).val

Count(s, a, b, c) == Cardinality({ x \in a..b : s[x] = c })

\* s[i..j] runs from an opening delimiter to its closing one, with pairs
\* inside it that are themselves not nested
Spans(s, i, j, open, close) ==
    /\ i < j /\ s[i] = open /\ s[j] = close
    /\ \A x \in (i + 1)..(j - 1) :
          Count(s, i + 1, x, open) - Count(s, i + 1, x, close) \in {0, 1}
    /\ Count(s, i + 1, j - 1, open) = Count(s, i + 1, j - 1, close)

\* the candidates <<i, j>> of s for a pair of delimiters: from left to right,
\* each span that starts behind the end of the candidate before it
CandidateSpans(s, open, close) ==
    LET from == { i \in 1..Len(s) : \E j \in 1..Len(s) : Spans(s, i, j, open, close) }
        EndOf(i) == CHOOSE j \in 1..Len(s) : Spans(s, i, j, open, close)
        starts == CHOOSE S \in SUBSET from :
                     \A i \in from :
                        i \in S <=> \A h \in S : h < i => EndOf(h) < i
    IN  { <<i, EndOf(i)>> : i \in starts }

\* the candidates of s that parse
Parseable(s, open, close) ==
    { w \in CandidateSpans(s, open, close) : JsonLoads(SubSeq(s, w[1], w[2])).ok }

\* the longest of the spans W, the leftmost of the longest
Longest(W) ==
    CHOOSE w \in W :
        \A x \in W : SpanLen(x) < SpanLen(w) \/ (SpanLen(x) = SpanLen(w) /\ w[1] <= x[1])

Chain(s) ==
    <<s>> \o Stripped(FindAllFenced(s, 1, TaggedFence))
          \o Stripped(FindAllFenced(s, 1, Fence))
          \o ObjectCandidates(s) \o ListCandidates(s)

StepAt(s, k) ==
    LET tagged == Len(FindAllFenced(s, 1, TaggedFence))
        fenced == Len(FindAllFenced(s, 1, Fence))
        objects == Len(ObjectCandidates(s))
    IN  IF k = 1 THEN "direct"
        ELSE IF k <= 1 + tagged THEN "tagged"
        ELSE IF k <= 1 + tagged + fenced THEN "fenced"
        ELSE IF k <= 1 + tagged + fenced + objects THEN "objects"
        ELSE "lists"

\* C22: for a text that is not blank, parse_llm_json returns the first parse
\* in the order: the whole text, the tagged fenced blocks in order of
\* appearance, the fenced blocks in order of appearance, the balanced
\* substrings; a block or step that yields no parse is passed over, and a
\* later one is used only if every earlier one yields none.
C22_FirstParseInOrder ==
    (parsed # Pending /\ ~Blank(raw_response)) =>
        LET chain == Chain(raw_response)
            parsing == { k \in 1..Len(chain) : JsonLoads(chain[k]).ok }
        IN  IF parsing = {}
            THEN parsed.kind # "ok"
            ELSE LET k == CHOOSE x \in parsing : \A y \in parsing : x <= y
                 IN  parsed = Returned(JsonLoads(chain[k]).val, StepAt(raw_response, k))

\* the first tagged block holds no JSON and is passed over, the second is
\* returned, before the balanced substrings of the text are looked at
C22_Witness ==
    LET blocks == Stripped(FindAllFenced(raw_response, 1, TaggedFence))
    IN  /\ parsed.step = "tagged"
        /\ Len(blocks) = 2
        /\ ~JsonLoads(blocks[1]).ok
        /\ parsed.val = JsonLoads(blocks[2]).val
        /\ Len(ObjectCandidates(raw_response)) >= 1

\* a text that opens with open and closes with the delimiter matching it
Balanced(c, open, close) ==
    /\ Len(c) >= 2
    /\ c[1] = open
    /\ Count(c, 1, Len(c), open) = Count(c, 1, Len(c), close)
    /\ \A k \in 1..(Len(c) - 1) : Count(c, 1, k, open) > Count(c, 1, k, close)

\* C23: every candidate of the balanced-delimiter step is one balanced
\* substring, closed by the delimiter that matches its first one, so none
\* spans two balanced substrings and the text between them; the value
\* returned in that step is the value of one of the candidates.
C23_CandidatesAreSingleSpans ==
    LET objects == FindAllBalanced(raw_response, 1, "{", "}")
        lists == FindAllBalanced(raw_response, 1, "[", "]")
    IN  /\ \A i \in 1..Len(objects) : Balanced(objects[i], "{", "}")
        /\ \A i \in 1..Len(lists) : Balanced(lists[i], "[", "]")
        /\ parsed.step = "objects" =>
              \E i \in 1..Len(objects) :
                  JsonLoads(objects[i]).ok /\ parsed.val = JsonLoads(objects[i]).val
        /\ parsed.step = "lists" =>
              \E i \in 1..Len(lists) :
                  JsonLoads(lists[i]).ok /\ parsed.val = JsonLoads(lists[i]).val

\* two objects with prose between them: both are candidates, one is returned
C23_Witness ==
    LET objects == FindAllBalanced(raw_response, 1, "{", "}")
    IN  /\ parsed.step = "objects"
        /\ Len(objects) = 2
        /\ JsonLoads(objects[1]).ok /\ JsonLoads(objects[2]).ok
        /\ Len(raw_response) = Len(objects[1]) + Len(objects[2]) + 1
        /\ raw_response[Len(objects[1]) + 1] = "p"
        /\ parsed.val = JsonLoads(objects[1]).val

(***************************************************************************)
(* Properties of the workflows and of the Linear client, under             *)
(* SpecWorkflow.                                                           *)
(***************************************************************************)
InWorkflow == workflow \in {"triage", "investigation"}

EqualsIgnoringCase(a, b) ==
    /\ Len(a) = Len(b)
    /\ \A i \in 1..Len(a) :
          \/ a[i] = b[i]
          \/ {a[i], b[i]} \in { {"t", "T"}, {"r", "R"}, {"u", "U"}, {"e", "E"},
                                {"y", "Y"}, {"s", "S"} }

WritesDisabled ==
    \/ ~env_writes.set
    \/ \A on \in { <<"t", "r", "u", "e">>, <<"1">>, <<"y", "e", "s">> } :
          ~EqualsIgnoringCase(env_writes.value, on)

InUpdateIssue == wpc \in {"update", "priority", "comment"}

\* C19: with writes disabled (LINEAR_ENABLE_WRITES unset or none of true, 1,
\* yes in any case) no step of update_issue sends a request, and it returns;
\* with writes enabled, when update_issue returns it has sent exactly two
\* requests, the priority update and then the comment.
C19_UpdateIssueRequests ==
    [][ /\ (InUpdateIssue /\ WritesDisabled) =>
              /\ requests' = requests
              /\ wpc' = "done" /\ finished'.kind = "returned" /\ thrown' = NoError
        /\ (InUpdateIssue /\ ~WritesDisabled /\ wpc' = "done" /\ thrown' = NoError) =>
              requests' = SubSeq(requests', 1, update_from)
                             \o <<"UpdateIssuePriority", "AddComment">> ]_vars

\* update_issue alone, with LINEAR_ENABLE_WRITES=YES
C19_Witness ==
    /\ workflow = "update_issue" /\ wpc = "done"
    /\ env_writes = SetTo(<<"Y", "E", "S">>)
    /\ finished = ReturnedNone
    /\ requests = <<"UpdateIssuePriority", "AddComment">>

\* the invocations of the k-th call of call_agent_with_retry
InvocationsOf(k) ==
    LET from == calls[k].before + 1
        to == IF k < Len(calls) THEN calls[k + 1].before ELSE Len(responses)
    IN  from..to

\* the k-th call was for the agent and one of its attempts validated
Validated(k, agent) ==
    /\ k <= Len(calls)
    /\ calls[k].agent = agent
    /\ \E i \in InvocationsOf(k) : responses[i] = "ok"

MutationsSent == \E i \in 1..Len(requests) : requests[i] # "GetIssue"

\* C20: in execute_triage every invocation of the bug-hunter agent comes
\* after an attempt of the analysis-expert agent validated; save_analysis is
\* called only after both analyses validated, and update_issue only after
\* save_analysis; once a call of an agent has raised, save_analysis and
\* update_issue have not been called and are not called; and the agents are
\* invoked at most 2 * max_retries times, 6 by default.
C20_TriageOrder ==
    /\ [](workflow = "triage" =>
             /\ Len(responses) <= 2 * DefaultMaxRetries
             /\ Len(responses) <= 6
             /\ pc = "raised" => saved = <<>> /\ ~MutationsSent /\ ~InUpdateIssue
             /\ (saved # <<>> \/ InUpdateIssue \/ MutationsSent) =>
                   /\ Validated(1, "analysis-expert") /\ validity # 0
                   /\ Validated(2, "bug-hunter") /\ severity # 0
             /\ (InUpdateIssue \/ MutationsSent) => Len(saved) = 1)
    /\ [][(workflow = "triage" /\ Len(responses') > Len(responses)
           /\ calls[Len(calls)].agent = "bug-hunter")
            => (Validated(1, "analysis-expert") /\ validity # 0)]_vars
    /\ [][(workflow = "triage" /\ pc = "raised") => (saved' = saved /\ ~InUpdateIssue')]_vars

\* a triage that succeeds with the third attempt of either agent
C20_Witness ==
    /\ workflow = "triage" /\ wpc = "done" /\ finished.success
    /\ Len(responses) = 2 * DefaultMaxRetries
    /\ saved # <<>>
    /\ requests = <<"GetIssue", "UpdateIssuePriority", "AddComment">>

\* the step sends the request name; Fails: it is not answered with success
Sends(name) ==
    /\ Len(requests') = Len(requests) + 1
    /\ requests'[Len(requests')] = name

Fails == replies'[Len(replies')] # "data"

\* the caller of update_issue gets the RuntimeError: update_issue raises, and
\* execute_triage returns a result with success false
UpdateIssueRaises ==
    /\ wpc' = "done"
    /\ thrown' = [kind |-> "RuntimeError", at |-> 0]
    /\ workflow = "update_issue" => finished'.kind = "raised"
    /\ workflow = "triage" => finished'.kind = "returned" /\ ~finished'.success

\* C30: update_issue sends the comment request only behind a priority
\* update that reported success; when the priority update fails it raises
\* and sends no comment; when the comment fails it raises with the priority
\* update sent and answered with success, and no further request follows,
\* so execute_triage reports success false for a ticket whose priority was
\* changed.
C30_CommentAfterPriorityNoRollback ==
    /\ [](Len(replies) = Len(requests))
    /\ [][ Sends("AddComment") =>
              /\ Len(requests) > update_from
              /\ requests[Len(requests)] = "UpdateIssuePriority"
              /\ replies[Len(replies)] = "data" ]_vars
    /\ [][ (Sends("UpdateIssuePriority") /\ Fails) => UpdateIssueRaises ]_vars
    /\ [][ (Sends("AddComment") /\ Fails) =>
              /\ UpdateIssueRaises
              /\ requests' = SubSeq(requests, 1, update_from)
                                \o <<"UpdateIssuePriority", "AddComment">> ]_vars
    /\ [][ wpc = "done" => (requests' = requests /\ wpc' = "done") ]_vars

\* a triage whose comment was refused after its priority update succeeded
C30_Witness ==
    /\ workflow = "triage" /\ wpc = "done"
    /\ finished.kind = "returned" /\ ~finished.success
    /\ requests = <<"GetIssue", "UpdateIssuePriority", "AddComment">>
    /\ replies = <<"data", "data", "lacking">>

\* C26 as stated: when fetch_issue and the history research have succeeded
\* and the pattern store returned at least one match, execute_investigation
\* returns success = True with a finding Historical pattern identified and a
\* recommendation Apply proven resolution pattern, each with a citation of
\* source_type pattern, and with the store's matches as pattern_matches.
C26_PatternMatchReported ==
    (workflow = "investigation" /\ wpc = "done" /\ pattern_matches # <<>>) =>
        /\ finished.success
        /\ \E i \in 1..Len(finished.findings) :
              /\ finished.findings[i].finding = "historical pattern"
              /\ finished.findings[i].citations[1].source_type = "pattern"
        /\ \E i \in 1..Len(finished.recommendations) :
              /\ finished.recommendations[i].recommendation =
                    <<"Apply proven resolution pattern: ">> \o pattern_matches[1].description
              /\ finished.recommendations[i].citations[1].source_type = "pattern"
        /\ finished.pattern_matches = pattern_matches

(***************************************************************************)
(* Properties of the store with several writers, under SpecWriters.        *)
(***************************************************************************)
\* the file holds every pattern recorded, in the order recorded, each with
\* one use more than the updates of it that returned True
NothingLost ==
    /\ Len(log) = Len(ledger)
    /\ \A i \in 1..Len(ledger) :
          /\ log[i].pattern_id = ledger[i].id
          /\ log[i].total_uses = ledger[i].uses

\* C14: with a single writer no recorded pattern and no update is ever
\* lost; with several writers a change is lost only by the rewrite of an
\* update_outcome that read the file before another writer wrote it, and
\* that does happen.
C14_LostOnlyByStaleRewrite ==
    /\ [](writers = 1 => NothingLost)
    /\ [][(NothingLost /\ ~NothingLost')
            => \E w \in 1..writers :
                  /\ wstate[w].pc = "rewrite" /\ wstate'[w].pc = "idle"
                  /\ wstate[w].seen < version]_vars
    /\ [][(\E w \in 1..writers :
              /\ wstate[w].pc = "rewrite" /\ wstate'[w].pc = "idle"
              /\ wstate[w].seen = version /\ NothingLost)
            => NothingLost']_vars

\* both writers are back at rest and a pattern one of them recorded, between
\* the other's read and rewrite, is not in the file
C14_Witness ==
    /\ writers = 2
    /\ \A w \in 1..writers : wstate[w].pc = "idle"
    /\ version = 3
    /\ Len(ledger) = 2 /\ Len(log) = 1
    /\ \A i \in 1..Len(log) : log[i].pattern_id # ledger[2].id

====
